---------------------------- MODULE Spec2Model ----------------------------
(***************************************************************************)
(* Model of the anime character image collection pipeline:                 *)
(*   - the image store (AdvancedDatabaseManager / DatabaseManagerSimple),  *)
(*   - the keyword work distribution (KeywordUtils),                       *)
(*   - the relevance filter (AdvancedImageScraper.filterRelevantImages),   *)
(*   - the per-search-term acquisition of AnimeImageCollectorApp and of    *)
(*     main.ts,                                                            *)
(*   - the JPEG quality search of AdvancedImageProcessor.                  *)
(* Each part has its own specification over the shared variables; the      *)
(* variables of the other parts stay at their idle values.                 *)
(***************************************************************************)
EXTENDS Integers, Sequences, FiniteSets, TLC

VARIABLES
  db,        \* the SQLite database: images table, AUTOINCREMENT sequence, last rowid
  lastCall,  \* the last store call: operation, URL given to insertImage (0: none), its
             \* return value, whether the call threw, and how many of the
             \* submitted records changed no row (result.changes = 0)
  everSubmitted,  \* history: the URLs ever handed to insertImage / insertImagesBatch
  config,    \* the AppConfig in use: targetImageCount {min, max}, keywordCategories
  distCall,  \* the last call of getWeightedKeywordDistribution: caller,
             \* targetTotal argument and the distribution returned
  run,       \* the collection run: entry point, searches left, the current
             \* keyword's targetCount and totalCollected
  disk,      \* the image files the run has stored, each with the candidate it
             \* was downloaded from and its real size and dimensions
  downloaded, \* history: successful downloads of each URL in this run
  filterCall, \* a call of filterRelevantImages: images, keywordData, the
             \* configured relevanceThreshold and, once made, its results
  normCall,   \* a call of AdvancedImageProcessor.processImage: the options, the
             \* encoder's behaviour on the image and, once made, the outcome
  geomCall,   \* a call of a resize-and-crop routine: the source and target sizes and,
             \* once made, the resized size and the crop rectangle
  encCall,   \* a call of ImageProcessor.processImage inside a run: the configured
             \* quality band, the image's encoded size per quality and the outcome
  kw,   \* a call of AnimeImageCollectorApp.processKeyword: where it stands, its
             \* counters and what has happened since the last search and download
  orch,   \* a run of the orchestrator (AnimeImageCollectorApp.run or
             \* AnimeCollectionSystem.runCollection): phase, keyword queue, progress,
             \* and the stop request of the signal handlers
  dl,   \* a download loop: candidates, fetches made, downloaded and failed lists
  ctor,   \* a configuration, the call made with it, and what the call left behind
  life,   \* one run from its first statement to the verdict of main
  proc,   \* one call of ImageProcessor.processImage, step by step
  adv,   \* one keyword of the advanced pipeline over several runs against one store
  st   \* the statistics of a run of AnimeImageCollectorApp and the records it stored

storeVars == <<db, lastCall, everSubmitted>>
distVars == <<config, distCall>>
pipeVars == <<run, disk, downloaded>>

vars == <<db, lastCall, everSubmitted, config, distCall, run, disk, downloaded,
          filterCall, normCall, geomCall, encCall, kw, orch, dl, ctor, life, proc, adv, st>>

\* What the actions of each part leave alone.
notStoreVars == <<distVars, pipeVars, filterCall, normCall, geomCall, encCall, kw, orch, dl, ctor, life, proc, adv, st>>
notDistVars == <<storeVars, pipeVars, filterCall, normCall, geomCall, encCall, kw, orch, dl, ctor, life, proc, adv, st>>
notPipeVars == <<lastCall, everSubmitted, distVars, filterCall, normCall, geomCall, encCall, kw, orch, dl, ctor, life, proc, adv, st>>
notFilterVars == <<storeVars, distVars, pipeVars, normCall, geomCall, encCall, kw, orch, dl, ctor, life, proc, adv, st>>
notNormVars == <<storeVars, distVars, pipeVars, filterCall, geomCall, encCall, kw, orch, dl, ctor, life, proc, adv, st>>

(***************************************************************************)
(* Bounds of the model.                                                    *)
(***************************************************************************)
MaxUrl == 2        \* source URLs are 1..MaxUrl
MaxBatch == 2      \* longest batch handed to insertImagesBatch
MaxCats == 2       \* most keyword categories in a configuration
MaxWeight == 2     \* category weights are 1..MaxWeight
MaxKeywords == 2   \* most keywords in a category
MaxTarget == 7     \* targetTotal of a direct call is 0..MaxTarget

URLS == 1..MaxUrl
ALTS == {"", "alt a", "alt b"}
STATUSES == {"pending", "processing", "completed", "failed"}
\* (status, processedAt given?) pairs a caller passes to updateProcessingStatus
StatusUpdates == {<<"processing", FALSE>>, <<"completed", TRUE>>}

(***************************************************************************)
(* Image store: AdvancedDatabaseManager (better-sqlite3).                  *)
(* A row of table images keeps: id, original_url (UNIQUE), alt_text,       *)
(* local_path, file_size, width, height, processing_status, processed_at.  *)
(***************************************************************************)
EmptyDb == [images |-> <<>>, seq |-> 0, lastInsertRowid |-> 0]

\* Mutant: the lookup without its WHERE clause looks at the first row only.
urlExistsFirstRow(d, originalUrl) ==
  d.images # <<>> /\ d.images[1].originalUrl = originalUrl

\* SELECT id FROM images WHERE original_url = ? LIMIT 1;  return !!result
urlExists(d, originalUrl) ==
  \E i \in DOMAIN d.images : d.images[i].originalUrl = originalUrl

\* The row written for a record: alt_text is (record.altText || ''),
\* processed_at is (record.processedAt?.toISOString() || null).
RowOf(id, record) ==
  [id               |-> id,
   originalUrl      |-> record.originalUrl,
   altText          |-> record.altText,
   localPath        |-> record.localPath,
   fileSize         |-> record.fileSize,
   width            |-> record.width,
   height           |-> record.height,
   processingStatus |-> record.processingStatus,
   processedAt      |-> record.processedAt]

\* A successful INSERT: the AUTOINCREMENT id is one more than the largest id
\* ever used; sqlite3_last_insert_rowid() becomes that id.
AppendRow(d, record) ==
  [images          |-> Append(d.images, RowOf(d.seq + 1, record)),
   seq             |-> d.seq + 1,
   lastInsertRowid |-> d.seq + 1]

\* Mutant: the table without its UNIQUE constraint.
NoUniqueConstraint(d, record) == FALSE

\* The UNIQUE constraint on original_url (column constraint and idx_images_url).
UniqueViolation(d, record) == urlExists(d, record.originalUrl)

\* Mutant: insertImage without the 'UNIQUE constraint' branch of its catch:
\* the SqliteError is rethrown to the caller.
insertImageRethrows(d, record) ==
  IF urlExists(d, record.originalUrl)
  THEN [db |-> d, ret |-> 0, threw |-> TRUE]
  ELSE [db |-> AppendRow(d, record), ret |-> d.seq + 1, threw |-> FALSE]

\* insertStmt.run of "INSERT INTO images": throws on a UNIQUE violation.
\* insertImage catches that error and returns -1; other errors are rethrown.
insertImageOutcome(d, record) ==
  IF UniqueViolation(d, record)
  THEN [db |-> d, ret |-> -1, threw |-> FALSE]
  ELSE LET d2 == AppendRow(d, record)
       IN  [db |-> d2, ret |-> d2.lastInsertRowid, threw |-> FALSE]

\* insertStmt.run of "INSERT OR IGNORE INTO images": a row violating UNIQUE
\* is skipped; lastInsertRowid then still names the last row really inserted.
InsertOrIgnore(d, record) ==
  IF UniqueViolation(d, record) THEN d ELSE AppendRow(d, record)

\* The transaction body of insertImagesBatch: run the statement per record,
\* push result.lastInsertRowid.
RECURSIVE batchTransaction(_, _, _)
batchTransaction(d, records, results) ==
  IF records = <<>>
  THEN [db |-> d, ret |-> results, threw |-> FALSE]
  ELSE LET d2 == InsertOrIgnore(d, Head(records))
       IN  batchTransaction(d2, Tail(records),
                            Append(results, d2.lastInsertRowid))

insertImagesBatchOutcome(d, records) == batchTransaction(d, records, <<>>)

\* The UPDATE without its WHERE clause
UpdateRowAll(row, imageId, status, processedAt) ==
  [row EXCEPT !.processingStatus = status, !.processedAt = processedAt]

\* UPDATE images SET processing_status = ?, processed_at = ? WHERE id = ?
UpdateRow(row, imageId, status, processedAt) ==
  IF row.id = imageId
  THEN [row EXCEPT !.processingStatus = status, !.processedAt = processedAt]
  ELSE row

updateProcessingStatusOutcome(d, imageId, status, processedAt) ==
  [d EXCEPT !.images =
     [i \in DOMAIN d.images |-> UpdateRow(d.images[i], imageId, status, processedAt)]]

(***************************************************************************)
(* Records a client of the store may submit.                               *)
(***************************************************************************)
StoreRecords ==
  [originalUrl : URLS, altText : {"alt a", "alt b"}, localPath : {0},
   fileSize : {0}, width : {0}, height : {0},
   processingStatus : {"pending"}, processedAt : {FALSE}]

RECURSIVE SeqsUpTo(_, _)
SeqsUpTo(S, n) ==
  IF n = 0 THEN {<<>>}
  ELSE LET shorter == SeqsUpTo(S, n - 1)
       IN  shorter \cup {Append(s, x) : s \in {t \in shorter : Len(t) = n - 1}, x \in S}

(***************************************************************************)
(* Store operations as actions.                                            *)
(***************************************************************************)
RowsAdded(before, after) == Len(after.images) - Len(before.images)

IdleStore ==
  /\ db = EmptyDb
  /\ lastCall = [op |-> "none", url |-> 0, ret |-> 0, threw |-> FALSE,
                 ignored |-> 0]
  /\ everSubmitted = {}

IdleDist ==
  /\ config = [targetImageCount |-> [min |-> 0, max |-> 0], keywordCategories |-> <<>>]
  /\ distCall = [caller |-> "none", targetTotal |-> 0, distribution |-> <<>>]

IdlePipe ==
  /\ run = [entry |-> "none", searchesLeft |-> 0, targetCount |-> 0, totalCollected |-> 0]
  /\ disk = <<>>
  /\ downloaded = [u \in URLS |-> 0]

IdleFilter ==
  filterCall = [images |-> <<>>, keywordData |-> <<>>, relevanceThreshold |-> 0,
                done |-> FALSE, scored |-> <<>>, returned |-> <<>>]

IdleNorm ==
  normCall = [options |-> <<>>, encoder |-> <<>>, fallback |-> <<>>, done |-> FALSE,
              outcome |-> "none", written |-> FALSE, processedSize |-> 0, quality |-> 0]

IdleGeomCall ==
  geomCall = [routine |-> "none", width |-> 0, height |-> 0,
              targetWidth |-> 0, targetHeight |-> 0,
              resizeWidth |-> 0, resizeHeight |-> 0,
              left |-> 0, top |-> 0, cropWidth |-> 0, cropHeight |-> 0]

IdleEncCall ==
  encCall = [quality |-> [min |-> 0, max |-> 0],
             jpegSize |-> [q \in {0} |-> 0],
             done |-> FALSE, success |-> FALSE, encodedQuality |-> 0]

IdleKw ==
  kw = [pc |-> "idle", targetCount |-> 0, termsLeft |-> 0, totalCollected |-> 0,
        records |-> 0, candidates |-> 0, attempted |-> 0, downloadedCount |-> 0,
        processAttempted |-> 0, imageRecords |-> 0, candidateFailed |-> FALSE,
        searchGap |-> "none", downloadGap |-> "none",
        unpacedSearch |-> FALSE, unpacedDownload |-> FALSE]

IdleOrch ==
  orch = [entry |-> "none", phase |-> "Idle", failedFrom |-> "none",
          keywords |-> <<>>, queue |-> <<>>, visited |-> <<>>,
          collected |-> 0, ceiling |-> 0, inFlight |-> FALSE,
          stop |-> "none", startedAfterStop |-> FALSE, cutOff |-> FALSE]

IdleDl ==
  dl = [entry |-> "none", pc |-> "idle", images |-> 0, i |-> 0,
        fetches |-> <<>>, downloaded |-> <<>>, failed |-> <<>>]

IdleCtor ==
  ctor = [config |-> <<>>, call |-> "none", errors |-> <<>>, threw |-> FALSE,
          created |-> <<>>]

IdleLife ==
  life = [entry |-> "none", pc |-> "idle", pending |-> "none", browser |-> "none",
          browserCloseFailed |-> FALSE, database |-> "open", reportWritten |-> FALSE,
          targetMin |-> 0, processed |-> 0, verdict |-> "none"]

IdleProc ==
  proc = [pc |-> "idle", currentQuality |-> 0, attempts |-> 0, processed |-> FALSE,
          success |-> FALSE, error |-> "", written |-> FALSE, threw |-> FALSE,
          cause |-> "none"]

IdleAdv ==
  adv = [pc |-> "idle", targetCount |-> 0, stored |-> 0, completed |-> 0,
         runsLeft |-> 0, imagesToDownload |-> 0, searchedWhenFull |-> FALSE]

IdleSt ==
  st = [pc |-> "idle", categoriesLeft |-> 0, termsLeft |-> 0, newCount |-> 0,
        downloadedCount |-> 0, categoriesStats |-> <<>>,
        totalImagesFound |-> 0, totalImagesDownloaded |-> 0,
        totalImagesProcessed |-> 0, persisted |-> 0, insertFailed |-> FALSE]

StoreInit ==
  /\ IdleDist
  /\ IdlePipe
  /\ IdleFilter
  /\ IdleNorm
  /\ IdleGeomCall
  /\ IdleEncCall
  /\ IdleKw
  /\ IdleOrch
  /\ IdleDl
  /\ IdleCtor
  /\ IdleLife
  /\ IdleProc
  /\ IdleAdv
  /\ IdleSt
  /\ db = EmptyDb
  /\ lastCall = [op |-> "none", url |-> 0, ret |-> 0, threw |-> FALSE,
                 ignored |-> 0]
  /\ everSubmitted = {}

insertImage(record) ==
  LET out == insertImageOutcome(db, record)
  IN  /\ db' = out.db
      /\ lastCall' = [op |-> "insertImage", url |-> record.originalUrl,
                      ret |-> out.ret, threw |-> out.threw,
                      ignored |-> 1 - RowsAdded(db, out.db)]
      /\ everSubmitted' = everSubmitted \cup {record.originalUrl}
      /\ UNCHANGED notStoreVars

insertImagesBatch(records) ==
  LET out == insertImagesBatchOutcome(db, records)
  IN  /\ db' = out.db
      /\ lastCall' = [op |-> "insertImagesBatch", url |-> 0,
                      ret |-> 0, threw |-> out.threw,
                      ignored |-> Len(records) - RowsAdded(db, out.db)]
      /\ everSubmitted' = everSubmitted \cup {records[i].originalUrl : i \in DOMAIN records}
      /\ UNCHANGED notStoreVars

updateProcessingStatus(imageId, status, processedAt) ==
  /\ db' = updateProcessingStatusOutcome(db, imageId, status, processedAt)
  /\ lastCall' = [op |-> "updateProcessingStatus", url |-> 0,
                  ret |-> 0, threw |-> FALSE, ignored |-> 0]
  /\ UNCHANGED <<everSubmitted, notStoreVars>>

StoreInsert == \E record \in StoreRecords : insertImage(record)

\* The batches handed to insertImagesBatch.
StoreBatches == SeqsUpTo(StoreRecords, MaxBatch)

StoreBatch == \E records \in StoreBatches : insertImagesBatch(records)

StoreUpdate ==
  \E imageId \in 1..(MaxUrl + 1), upd \in StatusUpdates :
    updateProcessingStatus(imageId, upd[1], upd[2])

StoreNext == StoreInsert \/ StoreBatch \/ StoreUpdate

Spec == StoreInit /\ [][StoreNext]_vars

(***************************************************************************)
(* Claims about the store, checked under Spec.                             *)
(***************************************************************************)
RowsWithUrl(d, u) == {i \in DOMAIN d.images : d.images[i].originalUrl = u}

\* C1: after any sequence of insertImage and insertImagesBatch calls (any
\* order, any repetition of URLs), no two persisted records share a source URL.
C1_UniqueSourceUrl ==
  \A i, j \in DOMAIN db.images :
    i # j => db.images[i].originalUrl # db.images[j].originalUrl

\* A batch in which some record repeated a persisted URL has run, and every
\* URL of the model is stored.
C1_Witness ==
  /\ lastCall.op = "insertImagesBatch"
  /\ lastCall.ignored > 0
  /\ Len(db.images) = MaxUrl

\* C2: a step that submits records (insertImage or insertImagesBatch) does not
\* throw, leaves every row that existed before it unchanged, adds no second
\* row for a URL that was already persisted, and insertImage of an already
\* persisted URL returns -1 and changes nothing.
C2_DuplicateIsNoOp ==
  [][lastCall'.op \in {"insertImage", "insertImagesBatch"} =>
       /\ ~lastCall'.threw
       /\ \A i \in DOMAIN db.images :
            i \in DOMAIN db'.images /\ db'.images[i] = db.images[i]
       /\ \A u \in URLS :
            urlExists(db, u) => Cardinality(RowsWithUrl(db', u)) = 1
       /\ (lastCall'.op = "insertImage" /\ urlExists(db, lastCall'.url)) =>
            (lastCall'.ret = -1 /\ db' = db)]_vars

\* insertImage was called with a URL that was already persisted under another
\* alt text.
C2_Witness ==
  /\ lastCall.op = "insertImage"
  /\ lastCall.ret = -1
  /\ lastCall.ignored = 1
  /\ Len(db.images) >= 1

RECURSIVE SumSeq(_)
SumSeq(s) == IF s = <<>> THEN 0 ELSE Head(s) + SumSeq(Tail(s))

\* config.keywordCategories.reduce((sum, cat) => sum + cat.weight, 0)
TotalWeight(cfg) ==
  SumSeq([c \in DOMAIN cfg.keywordCategories |-> cfg.keywordCategories[c].weight])

\* Mutant: Math.ceil in place of Math.floor.
CategoryTargetCeil(targetTotal, weight, totalWeight) ==
  (targetTotal * weight + totalWeight - 1) \div totalWeight

\* Math.floor((targetTotal * category.weight) / totalWeight)
CategoryTarget(targetTotal, weight, totalWeight) ==
  (targetTotal * weight) \div totalWeight

\* Math.floor(categoryTarget / category.keywords.length)
KeywordTarget(categoryTarget, nKeywords) == categoryTarget \div nKeywords

\* The entries pushed for one category, in keyword order.
CategoryEntries(cfg, c, targetTotal) ==
  LET category == cfg.keywordCategories[c]
      keywordTarget ==
        KeywordTarget(CategoryTarget(targetTotal, category.weight, TotalWeight(cfg)),
                      category.keywords)
  IN  [k \in 1..category.keywords |->
         [keyword |-> <<c, k>>, targetCount |-> keywordTarget, category |-> c]]

RECURSIVE DistributionFrom(_, _, _)
DistributionFrom(cfg, c, targetTotal) ==
  IF c > Len(cfg.keywordCategories) THEN <<>>
  ELSE CategoryEntries(cfg, c, targetTotal) \o DistributionFrom(cfg, c + 1, targetTotal)

getWeightedKeywordDistribution(targetTotal, cfg) == DistributionFrom(cfg, 1, targetTotal)

\* Mutant: the run distributing targetImageCount.min.
RunTargetTotalMin(cfg) == cfg.targetImageCount.min

\* AnimeImageCollectorApp.run passes this.config.targetImageCount.max.
RunTargetTotal(cfg) == cfg.targetImageCount.max

\* Configurations that pass validateConfig: min < max, at least one category,
\* every category with a weight > 0 and at least one keyword.
Categories == [weight : 1..MaxWeight, keywords : 1..MaxKeywords]
TargetImageCounts ==
  {t \in [min : {0, 50, 100, 150}, max : {0, 50, 100, 150}] : t.min < t.max}
ValidConfigs ==
  [targetImageCount : TargetImageCounts,
   keywordCategories : SeqsUpTo(Categories, MaxCats) \ {<<>>}]

DistInit ==
  /\ IdleStore
  /\ IdlePipe
  /\ IdleFilter
  /\ IdleNorm
  /\ IdleGeomCall
  /\ IdleEncCall
  /\ IdleKw
  /\ IdleOrch
  /\ IdleDl
  /\ IdleCtor
  /\ IdleLife
  /\ IdleProc
  /\ IdleAdv
  /\ IdleSt
  /\ config \in ValidConfigs
  /\ distCall = [caller |-> "none", targetTotal |-> 0, distribution |-> <<>>]

\* The distribution step of AnimeImageCollectorApp.run.
RunDistribute ==
  /\ distCall.caller = "none"
  /\ distCall' = [caller |-> "run", targetTotal |-> RunTargetTotal(config),
                  distribution |->
                    getWeightedKeywordDistribution(RunTargetTotal(config), config)]
  /\ UNCHANGED <<config, notDistVars>>

\* A direct call with any targetTotal >= 0, as the tests make.
DirectDistribute ==
  /\ distCall.caller = "none"
  /\ \E targetTotal \in 0..MaxTarget :
       distCall' = [caller |-> "direct", targetTotal |-> targetTotal,
                    distribution |-> getWeightedKeywordDistribution(targetTotal, config)]
  /\ UNCHANGED <<config, notDistVars>>

DistNext == RunDistribute \/ DirectDistribute

SpecDist == DistInit /\ [][DistNext]_vars

(***************************************************************************)
(* Claims about the distribution, checked under SpecDist.                  *)
(***************************************************************************)
TargetCounts(distribution) ==
  [i \in DOMAIN distribution |-> distribution[i].targetCount]

CategoryTotal(distribution, c) ==
  SumSeq([i \in DOMAIN distribution |->
            IF distribution[i].category = c THEN distribution[i].targetCount ELSE 0])

\* C6: for every targetTotal >= 0 and every configuration with at least one
\* category, positive weights and non-empty keyword lists, the targetCounts
\* returned by getWeightedKeywordDistribution sum to at most targetTotal.
C6_SumAtMostTarget ==
  distCall.caller # "none" =>
    SumSeq(TargetCounts(distCall.distribution)) <= distCall.targetTotal

\* A call over several categories whose floors left part of a positive
\* target unallocated.
C6_Witness ==
  /\ distCall.caller = "direct"
  /\ Len(config.keywordCategories) >= 2
  /\ SumSeq(TargetCounts(distCall.distribution)) > 0
  /\ SumSeq(TargetCounts(distCall.distribution)) < distCall.targetTotal

\* The scenario of C7: globalTarget {min: 100, max: 150}, two categories
\* weighted 2 : 1 with two keywords each, distributed by a run.
C7_Scenario ==
  /\ distCall.caller = "run"
  /\ config.targetImageCount = [min |-> 100, max |-> 150]
  /\ config.keywordCategories =
       <<[weight |-> 2, keywords |-> 2], [weight |-> 1, keywords |-> 2]>>

\* C7 as claimed: in the scenario the per-keyword targets of the run sum to
\* 100, are split 2 : 1 between the categories and are equal within each.
C7_AsClaimed ==
  C7_Scenario =>
    /\ SumSeq(TargetCounts(distCall.distribution)) = 100
    /\ CategoryTotal(distCall.distribution, 1) = 2 * CategoryTotal(distCall.distribution, 2)
    /\ \A i, j \in DOMAIN distCall.distribution :
         distCall.distribution[i].category = distCall.distribution[j].category =>
           distCall.distribution[i].targetCount = distCall.distribution[j].targetCount

\* C7 amended: in the scenario the per-keyword targets of the run sum to 150
\* (targetImageCount.max), split 100 : 50 between the categories, 50 per
\* keyword in the first category and 25 per keyword in the second.
C7_Amended ==
  C7_Scenario =>
    /\ SumSeq(TargetCounts(distCall.distribution)) = 150
    /\ CategoryTotal(distCall.distribution, 1) = 100
    /\ CategoryTotal(distCall.distribution, 2) = 50
    /\ TargetCounts(distCall.distribution) = <<50, 50, 25, 25>>

C7_Witness ==
  /\ C7_Scenario
  /\ Len(distCall.distribution) = 4

(***************************************************************************)
(* Acquisition: one search term of AnimeImageCollectorApp.processKeyword   *)
(* and one keyword of main.ts, each a single step.  The search and the     *)
(* network are the environment: a search returns any list of candidates    *)
(* with distinct URLs, each fetch fails or yields any image.               *)
(***************************************************************************)
MaxFound == 2        \* most candidates one search returns
MaxSearches == 2     \* searches made in one run

maxFileSize == 51200    \* imageProcessing.maxFileSize, 50 * 1024
maxWidth == 500         \* imageProcessing.maxWidth
maxHeight == 500        \* imageProcessing.maxHeight
processorQuality == 80  \* imageProcessing.quality.max, the ImageProcessor's quality
maxAttempts == 5
minQuality == 50
qualityStep == 10

Candidates == [url : URLS, altText : {"alt a", "alt b"}]

\* searchImages adds a candidate only if no earlier one has its URL.
SearchResults ==
  {s \in SeqsUpTo(Candidates, MaxFound) :
     \A i, j \in DOMAIN s : s[i].url = s[j].url => i = j}

\* The qualities the ImageProcessor can try, and the encoded size at each:
\* a higher quality never gives a smaller file.
QualityLadder ==
  {q \in minQuality..processorQuality : (processorQuality - q) % qualityStep = 0}
Sizes == {maxFileSize, maxFileSize + 1}
JpegSizes ==
  {f \in [QualityLadder -> Sizes] : \A p, q \in QualityLadder : p <= q => f[p] <= f[q]}

\* What a fetch yields: nothing (HTTP error, exception) or an image of some
\* byte size and dimensions.
RawImages ==
  [ok : {TRUE}, size : Sizes, dims : {<<500, 500>>, <<800, 600>>},
   jpegSize : JpegSizes]
Fetched == {[ok |-> FALSE]} \cup RawImages

\* Math.round(a / b) for a >= 0, b > 0
Round(a, b) == (2 * a + b) \div (2 * b)

Min(a, b) == IF a <= b THEN a ELSE b

\* ImageProcessor.resizeAndCrop: the dimensions of the extracted region.
resizeAndCrop(originalWidth, originalHeight) ==
  LET wider == originalWidth * maxHeight > maxWidth * originalHeight
      resizeWidth == IF wider THEN Round(maxHeight * originalWidth, originalHeight)
                     ELSE maxWidth
      resizeHeight == IF wider THEN maxHeight
                      ELSE Round(maxWidth * originalHeight, originalWidth)
  IN  [width |-> Min(maxWidth, resizeWidth), height |-> Min(maxHeight, resizeHeight)]

ProcessingFailed == [success |-> FALSE, processedSize |-> 0, width |-> 0, height |-> 0]

\* The while loop of ImageProcessor.processImage: encode at currentQuality,
\* write the file if it fits, otherwise lower the quality and retry.
RECURSIVE compressAttempts(_, _, _)
compressAttempts(image, currentQuality, attempts) ==
  IF ~(attempts < maxAttempts /\ currentQuality >= minQuality) THEN ProcessingFailed
  ELSE IF image.jpegSize[currentQuality] <= maxFileSize
       THEN LET region == resizeAndCrop(image.dims[1], image.dims[2])
            IN  [success |-> TRUE, processedSize |-> image.jpegSize[currentQuality],
                 width |-> region.width, height |-> region.height]
       ELSE compressAttempts(image, currentQuality - qualityStep, attempts + 1)

\* ImageProcessor.processImage
processImage(image) ==
  IF image.dims[1] = 0 \/ image.dims[2] = 0 THEN ProcessingFailed
  ELSE compressAttempts(image, processorQuality, 0)

\* The files of the successful downloads, in order.  A file is known by
\* what it holds: the candidate it was fetched from and the image fetched.
RECURSIVE downloadedFrom(_, _, _)
downloadedFrom(imageDataArray, fetches, i) ==
  IF i > Len(imageDataArray) THEN <<>>
  ELSE (IF fetches[i].ok
        THEN <<[url |-> imageDataArray[i].url, altText |-> imageDataArray[i].altText,
                image |-> fetches[i]]>>
        ELSE <<>>) \o downloadedFrom(imageDataArray, fetches, i + 1)

\* AnimeImageCollectorApp.downloadImages
downloadImages(imageDataArray, fetches) == downloadedFrom(imageDataArray, fetches, 1)

\* ImageScraper.batchDownload
batchDownload(images, fetches) == downloadedFrom(images, fetches, 1)

\* imageDataArray.filter(imgData => !this.database.urlExists(imgData.url))
newImageDataOf(d, imageDataArray) ==
  SelectSeq(imageDataArray, LAMBDA imgData : ~urlExists(d, imgData.url))

\* The loop of processDownloadedImages: filenames[i] is processed and its
\* record is built from imageDataArray[i].
RECURSIVE processDownloadedFrom(_, _, _, _, _)
processDownloadedFrom(dsk, filenames, imageDataArray, i, imageRecords) ==
  IF i > Len(filenames) THEN [disk |-> dsk, imageRecords |-> imageRecords]
  ELSE LET filename == filenames[i]
           imageData == imageDataArray[i]
           result == processImage(filename.image)
       IN  IF result.success
           THEN processDownloadedFrom(
                  Append(dsk, [url |-> filename.url, altText |-> filename.altText,
                               size |-> result.processedSize,
                               width |-> result.width, height |-> result.height]),
                  filenames, imageDataArray, i + 1,
                  Append(imageRecords,
                         [originalUrl |-> imageData.url, altText |-> imageData.altText,
                          localPath |-> Len(dsk) + 1, fileSize |-> result.processedSize,
                          width |-> result.width, height |-> result.height,
                          processingStatus |-> "completed", processedAt |-> TRUE]))
           ELSE processDownloadedFrom(dsk, filenames, imageDataArray, i + 1, imageRecords)

processDownloadedImages(dsk, filenames, imageDataArray) ==
  processDownloadedFrom(dsk, filenames, imageDataArray, 1, <<>>)

\* DatabaseManager.batchInsertImages: the store's batchInsert, which ignores
\* a record whose URL is stored.
batchInsertImages(d, records) == insertImagesBatchOutcome(d, records).db

\* The insert loop of main.ts: downloadedFiles[i] is stored as it was
\* downloaded and recorded with images[i], 500 x 500, completed.
RECURSIVE mainInsertFrom(_, _, _, _, _)
mainInsertFrom(d, dsk, downloadedFiles, images, i) ==
  IF i > Len(downloadedFiles) THEN [db |-> d, disk |-> dsk]
  ELSE LET filename == downloadedFiles[i]
           record == [originalUrl |-> images[i].url, altText |-> images[i].altText,
                      localPath |-> Len(dsk) + 1, fileSize |-> filename.image.size,
                      width |-> 500, height |-> 500,
                      processingStatus |-> "completed", processedAt |-> FALSE]
       IN  mainInsertFrom(insertImageOutcome(d, record).db,
                          Append(dsk, [url |-> filename.url, altText |-> filename.altText,
                                       size |-> filename.image.size,
                                       width |-> filename.image.dims[1],
                                       height |-> filename.image.dims[2]]),
                          downloadedFiles, images, i + 1)

\* The successful downloads of each URL, counted.
countDownloads(count, files) ==
  [u \in URLS |-> count[u] + Cardinality({i \in DOMAIN files : files[i].url = u})]

PipeInit ==
  /\ IdleStore
  /\ IdleDist
  /\ IdleFilter
  /\ IdleNorm
  /\ IdleGeomCall
  /\ IdleEncCall
  /\ IdleKw
  /\ IdleOrch
  /\ IdleDl
  /\ IdleCtor
  /\ IdleLife
  /\ IdleProc
  /\ IdleAdv
  /\ IdleSt
  /\ run \in [entry : {"app", "main"}, searchesLeft : {MaxSearches},
              targetCount : {0}, totalCollected : {0}]
  /\ disk = <<>>
  /\ downloaded = [u \in URLS |-> 0]

\* processKeyword is entered for the next keyword with its targetCount.
AppStartKeyword ==
  /\ run.entry = "app"
  /\ run.searchesLeft > 0
  /\ \E targetCount \in 0..MaxFound :
       run' = [run EXCEPT !.targetCount = targetCount, !.totalCollected = 0]
  /\ UNCHANGED <<db, disk, downloaded, notPipeVars>>

\* One iteration of the search-term loop of processKeyword.
AppSearchTerm ==
  /\ run.entry = "app"
  /\ run.searchesLeft > 0
  /\ run.totalCollected < run.targetCount
  /\ \E imageDataArray \in SearchResults :
       LET newImageData == newImageDataOf(db, imageDataArray)
       IN  \E fetches \in [1..Len(newImageData) -> Fetched] :
             LET downloadedFiles == downloadImages(newImageData, fetches)
                 processedFiles == processDownloadedImages(disk, downloadedFiles, newImageData)
             IN  /\ disk' = processedFiles.disk
                 /\ db' = IF processedFiles.imageRecords # <<>>
                          THEN batchInsertImages(db, processedFiles.imageRecords)
                          ELSE db
                 /\ downloaded' = countDownloads(downloaded, downloadedFiles)
                 /\ run' = [run EXCEPT !.searchesLeft = @ - 1,
                                       !.totalCollected = @ + Len(downloadedFiles)]
  /\ UNCHANGED notPipeVars

\* One iteration of the keyword loop of main.ts.
MainKeyword ==
  /\ run.entry = "main"
  /\ run.searchesLeft > 0
  /\ \E images \in SearchResults :
       \E fetches \in [1..Len(images) -> Fetched] :
         LET downloadedFiles == batchDownload(images, fetches)
             stored == mainInsertFrom(db, disk, downloadedFiles, images, 1)
         IN  /\ disk' = stored.disk
             /\ db' = stored.db
             /\ downloaded' = countDownloads(downloaded, downloadedFiles)
             /\ run' = [run EXCEPT !.searchesLeft = @ - 1]
  /\ UNCHANGED notPipeVars

PipeNext == AppStartKeyword \/ AppSearchTerm \/ MainKeyword

SpecPipeline == PipeInit /\ [][PipeNext]_vars

(***************************************************************************)
(* Claims about acquisition, checked under SpecPipeline.                   *)
(***************************************************************************)

\* C3: every persisted record carries the source URL and the alt text of the
\* candidate that its stored file was downloaded from, also in batches in
\* which a download failed and a later one succeeded.
C3_RecordMatchesFile ==
  \A i \in DOMAIN db.images :
    /\ disk[db.images[i].localPath].url = db.images[i].originalUrl
    /\ disk[db.images[i].localPath].altText = db.images[i].altText

\* C5: in a run of the application, whose only duplicate check is urlExists
\* on the persisted records, no source URL is downloaded more than once.
C5_DownloadedAtMostOnce ==
  run.entry = "app" => \A u \in URLS : downloaded[u] <= 1

\* C9: every record persisted as completed has width = maxWidth,
\* height = maxHeight and fileSize <= maxFileSize, and so has the file it
\* refers to.
C9_CompletedConforms ==
  \A i \in DOMAIN db.images :
    db.images[i].processingStatus = "completed" =>
      /\ db.images[i].width = maxWidth
      /\ db.images[i].height = maxHeight
      /\ db.images[i].fileSize <= maxFileSize
      /\ disk[db.images[i].localPath].width = maxWidth
      /\ disk[db.images[i].localPath].height = maxHeight
      /\ disk[db.images[i].localPath].size <= maxFileSize

(***************************************************************************)
(* Relevance filter: AdvancedImageScraper.filterRelevantImages.            *)
(* A text is a sequence of words; String.includes is containment of a      *)
(* phrase as a run of consecutive words ('outfit only' in an alt text and  *)
(* 'outfit-only' in a URL are both <<"outfit", "only">>).  Scores are in   *)
(* hundredths.                                                             *)
(***************************************************************************)
MaxWords == 2     \* longest alt text or URL, in words
MaxImages == 1    \* most images in one call

AltWords == {"anime", "girl", "outfit", "only", "fabric", "mannequin", "Mannequin"}
UrlWords == {"anime", "outfit", "only", "fabric", "mannequin"}

\* String.prototype.toLowerCase
toLowerCase(text) ==
  [i \in DOMAIN text |-> IF text[i] = "Mannequin" THEN "mannequin" ELSE text[i]]

\* String.prototype.includes
includes(text, phrase) ==
  \E i \in 0..(Len(text) - Len(phrase)) : SubSeq(text, i + 1, i + Len(phrase)) = phrase

clothingOnlyKeywords ==
  {<<"outfit", "only">>, <<"clothing", "only">>, <<"costume", "only">>, <<"dress", "only">>,
   <<"uniform", "only">>, <<"outfit", "without">>, <<"clothing", "without">>,
   <<"just", "outfit">>, <<"just", "clothing">>, <<"just", "costume">>,
   <<"empty", "outfit">>, <<"empty", "costume">>, <<"empty", "dress">>,
   <<"outfit", "design">>, <<"clothing", "design">>, <<"costume", "design">>,
   <<"pattern">>, <<"texture">>, <<"fabric">>,
   <<"mannequin">>, <<"hanger">>, <<"display">>}

urlClothingKeywords ==
  {<<"outfit", "only">>, <<"clothing", "only">>, <<"costume", "only">>,
   <<"pattern">>, <<"texture">>, <<"design", "only">>,
   <<"mannequin">>, <<"display">>}

isClothingOnlyImage(altText, url) ==
  \/ \E keyword \in clothingOnlyKeywords : includes(altText, keyword)
  \/ \E keyword \in urlClothingKeywords : includes(url, keyword)

characterKeywords ==
  {<<"girl">>, <<"boy">>, <<"woman">>, <<"man">>, <<"character">>,
   <<"person">>, <<"people">>, <<"human">>, <<"figure">>,
   <<"face">>, <<"portrait">>, <<"body">>, <<"full", "body">>,
   <<"standing">>, <<"sitting">>, <<"pose">>, <<"posing">>,
   <<"smile">>, <<"smiling">>, <<"expression">>,
   <<"hair">>, <<"eyes">>, <<"skin">>,
   <<"anime", "girl">>, <<"anime", "boy">>, <<"anime", "character">>,
   <<"manga", "character">>, <<"waifu">>, <<"husbando">>}

urlCharacterKeywords ==
  {<<"character">>, <<"girl">>, <<"boy">>, <<"anime", "girl">>, <<"anime", "boy">>,
   <<"person">>, <<"people">>, <<"human">>, <<"figure">>,
   <<"portrait">>, <<"face">>}

hasCharacterIndicators(altText, url) ==
  \/ \E keyword \in characterKeywords : includes(altText, keyword)
  \/ \E keyword \in urlCharacterKeywords : includes(url, keyword)

Bonus(condition, points) == IF condition THEN points ELSE 0

\* The score of an image that is not clothing-only, before the cap.
bonusScore(img, keywordData) ==
  LET altLower == toLowerCase(img.altText)
      keywordLower == toLowerCase(keywordData.keyword)
      imgUrlLower == toLowerCase(img.url)
  IN  keywordData.relevanceScore
      + Bonus(hasCharacterIndicators(altLower, imgUrlLower), 15)
      + Bonus(includes(altLower, <<keywordLower[1]>>), 10)
      + Bonus(includes(altLower, <<"anime">>), 5)
      + Bonus(includes(altLower, <<"character">>), 5)
      + Bonus(includes(altLower, keywordData.category), 5)
      + Bonus(includes(altLower, keywordData.subcategory), 5)
      + Bonus(img.width # 0 /\ img.height # 0
              /\ 10 * img.width >= 7 * img.height /\ 10 * img.width <= 15 * img.height, 5)
      + Bonus(img.width # 0 /\ img.height # 0 /\ img.width >= 300 /\ img.width <= 800, 5)
      + Bonus(includes(imgUrlLower, <<"anime">>), 5)
      + Bonus(includes(imgUrlLower, <<"character">>), 3)

\* The map callback of filterRelevantImages: the image with its score set.
scoreImage(img, keywordData) ==
  IF isClothingOnlyImage(toLowerCase(img.altText), toLowerCase(img.url))
  THEN [img EXCEPT !.relevanceScore = 0]
  ELSE [img EXCEPT !.relevanceScore = Min(bonusScore(img, keywordData), 100)]

filterRelevantImages(images, keywordData, relevanceThreshold) ==
  LET scored == [i \in DOMAIN images |-> scoreImage(images[i], keywordData)]
  IN  [scored |-> scored,
       returned |-> SelectSeq(scored, LAMBDA img : img.relevanceScore >= relevanceThreshold)]

Texts(words) == SeqsUpTo(words, MaxWords)

EnhancedImageData ==
  [altText : Texts(AltWords), url : Texts(UrlWords) \ {<<>>},
   width : {0, 500}, height : {0, 500}, relevanceScore : {0}]

CharacterKeywords ==
  {[keyword |-> <<"anime", "girl">>, category |-> <<"female">>, subcategory |-> <<"girl">>,
    relevanceScore |-> 90],
   [keyword |-> <<"outfit", "girl">>, category |-> <<"style">>, subcategory |-> <<"outfit">>,
    relevanceScore |-> 96]}

\* Configured thresholds: none (0), the application's 0.85, the maximum.
RelevanceThresholds == {0, 85, 100}

FilterInit ==
  /\ IdleStore
  /\ IdleDist
  /\ IdlePipe
  /\ IdleNorm
  /\ IdleGeomCall
  /\ IdleEncCall
  /\ IdleKw
  /\ IdleOrch
  /\ IdleDl
  /\ IdleCtor
  /\ IdleLife
  /\ IdleProc
  /\ IdleAdv
  /\ IdleSt
  /\ filterCall \in [images : SeqsUpTo(EnhancedImageData, MaxImages),
                     keywordData : CharacterKeywords,
                     relevanceThreshold : RelevanceThresholds,
                     done : {FALSE}, scored : {<<>>}, returned : {<<>>}]

FilterImages ==
  /\ ~filterCall.done
  /\ LET result == filterRelevantImages(filterCall.images, filterCall.keywordData,
                                        filterCall.relevanceThreshold)
     IN  filterCall' = [filterCall EXCEPT !.done = TRUE, !.scored = result.scored,
                                          !.returned = result.returned]
  /\ UNCHANGED notFilterVars

FilterNext == FilterImages

SpecFilter == FilterInit /\ [][FilterNext]_vars

(***************************************************************************)
(* Claims about the relevance filter, checked under SpecFilter.            *)
(***************************************************************************)
ContainsExclusionPhrase(img) ==
  \/ \E phrase \in clothingOnlyKeywords : includes(toLowerCase(img.altText), phrase)
  \/ \E phrase \in urlClothingKeywords : includes(toLowerCase(img.url), phrase)

\* C8: every candidate whose alt text or URL contains an exclusion phrase
\* gets score 0 and is not among the images filterRelevantImages returns,
\* for every keyword and every configured relevance threshold.
C8_ExcludedNeverReturned ==
  filterCall.done =>
    \A i \in DOMAIN filterCall.images :
      ContainsExclusionPhrase(filterCall.images[i]) =>
        /\ filterCall.scored[i].relevanceScore = 0
        /\ \A j \in DOMAIN filterCall.returned :
             ~(/\ filterCall.returned[j].url = filterCall.images[i].url
               /\ filterCall.returned[j].altText = filterCall.images[i].altText)

(***************************************************************************)
(* JPEG quality search: AdvancedImageProcessor.optimizeJpegQuality and the *)
(* write in processImage.  The encoder is the environment: at each quality *)
(* it fails or yields a buffer of some size, a higher quality never a      *)
(* smaller one; the last-resort encode at min uses other encoder options,  *)
(* so its outcome is separate.                                             *)
(***************************************************************************)
MaxQuality == 3   \* qualities are 1..MaxQuality
MaxSize == 3      \* buffer sizes and maxFileSize are 1..MaxSize

Qualities == 1..MaxQuality
BufferSizes == 1..MaxSize

ProcessingOptions ==
  [jpegQuality : [min : Qualities, max : Qualities], maxFileSize : BufferSizes]

Encoders ==
  [size : {f \in [Qualities -> BufferSizes] : \A p, q \in Qualities : p <= q => f[p] <= f[q]},
   errors : SUBSET Qualities]

FallbackEncodes == {[ok |-> FALSE, size |-> 0]} \cup [ok : {TRUE}, size : BufferSizes]

\* Mutant: the search settles for the first quality that fits.
searchQualityFirstFit(lowQuality, highQuality, best, encoder, maxSize) ==
  LET currentQuality == (lowQuality + highQuality + 1) \div 2
  IN  IF ~(lowQuality <= highQuality) THEN best
      ELSE IF currentQuality \notin encoder.errors /\ encoder.size[currentQuality] <= maxSize
           THEN [found |-> TRUE, quality |-> currentQuality,
                 size |-> encoder.size[currentQuality]]
           ELSE IF lowQuality <= currentQuality - 1
                   /\ lowQuality \notin encoder.errors /\ encoder.size[lowQuality] <= maxSize
                THEN [found |-> TRUE, quality |-> lowQuality, size |-> encoder.size[lowQuality]]
                ELSE best

\* The binary search loop: best is the largest fitting buffer found so far.
RECURSIVE searchQuality(_, _, _, _, _)
searchQuality(lowQuality, highQuality, best, encoder, maxSize) ==
  IF ~(lowQuality <= highQuality) THEN best
  ELSE LET currentQuality == (lowQuality + highQuality + 1) \div 2
       IN  IF currentQuality \in encoder.errors
           THEN searchQuality(lowQuality, currentQuality - 1, best, encoder, maxSize)
           ELSE IF encoder.size[currentQuality] <= maxSize
                THEN searchQuality(currentQuality + 1, highQuality,
                                   [found |-> TRUE, quality |-> currentQuality,
                                    size |-> encoder.size[currentQuality]],
                                   encoder, maxSize)
                ELSE searchQuality(lowQuality, currentQuality - 1, best, encoder, maxSize)

optimizeJpegQuality(options, encoder, fallback) ==
  LET min == options.jpegQuality.min
      max == options.jpegQuality.max
      best == searchQuality(min, max, [found |-> FALSE, quality |-> max, size |-> 0],
                            encoder, options.maxFileSize)
  IN  IF best.found THEN [threw |-> FALSE, size |-> best.size, quality |-> best.quality]
      ELSE IF fallback.ok THEN [threw |-> FALSE, size |-> fallback.size, quality |-> min]
      ELSE [threw |-> TRUE, size |-> 0, quality |-> min]

\* AdvancedImageProcessor.processImage from the quality optimisation on: the
\* buffer returned is written to outputPath; an encoder error is rethrown.
advancedProcessImage(options, encoder, fallback) ==
  LET optimized == optimizeJpegQuality(options, encoder, fallback)
  IN  IF optimized.threw
      THEN [outcome |-> "threw", written |-> FALSE, processedSize |-> 0, quality |-> 0]
      ELSE [outcome |-> "returned", written |-> TRUE, processedSize |-> optimized.size,
            quality |-> optimized.quality]

NormInit ==
  /\ IdleStore
  /\ IdleDist
  /\ IdlePipe
  /\ IdleFilter
  /\ IdleGeomCall
  /\ IdleEncCall
  /\ IdleKw
  /\ IdleOrch
  /\ IdleDl
  /\ IdleCtor
  /\ IdleLife
  /\ IdleProc
  /\ IdleAdv
  /\ IdleSt
  /\ normCall \in [options : ProcessingOptions, encoder : Encoders,
                   fallback : FallbackEncodes, done : {FALSE}, outcome : {"none"},
                   written : {FALSE}, processedSize : {0}, quality : {0}]

ProcessImage ==
  /\ ~normCall.done
  /\ LET result == advancedProcessImage(normCall.options, normCall.encoder,
                                        normCall.fallback)
     IN  normCall' = [normCall EXCEPT !.done = TRUE, !.outcome = result.outcome,
                                      !.written = result.written,
                                      !.processedSize = result.processedSize,
                                      !.quality = result.quality]
  /\ UNCHANGED notNormVars

NormNext == ProcessImage

SpecNorm == NormInit /\ [][NormNext]_vars

(***************************************************************************)
(* Claims about the quality search, checked under SpecNorm.                *)
(***************************************************************************)
\* Even the minimum quality of the band gives more than maxFileSize bytes.
EvenMinTooLarge ==
  /\ normCall.options.jpegQuality.min <= normCall.options.jpegQuality.max
  /\ normCall.options.jpegQuality.min \notin normCall.encoder.errors
  /\ normCall.encoder.size[normCall.options.jpegQuality.min] > normCall.options.maxFileSize
  /\ normCall.fallback.ok
  /\ normCall.fallback.size > normCall.options.maxFileSize

\* C10: when even the minimum quality gives more than maxFileSize bytes,
\* processImage ends in an error and writes no file; every file it writes
\* has size <= maxFileSize.
C10_NoOversizeFileWritten ==
  normCall.done =>
    /\ normCall.written => normCall.processedSize <= normCall.options.maxFileSize
    /\ EvenMinTooLarge => (normCall.outcome = "threw" /\ ~normCall.written)

\* The qualities of the band whose encoding fits maxFileSize.
FittingQualities ==
  {q \in normCall.options.jpegQuality.min..normCall.options.jpegQuality.max :
     normCall.encoder.size[q] <= normCall.options.maxFileSize}

\* The encoder yields a buffer at every quality of the band.
EncodesWholeBand ==
  \A q \in normCall.options.jpegQuality.min..normCall.options.jpegQuality.max :
    q \notin normCall.encoder.errors

\* C11: with encoded size non-decreasing in quality, a band with min <= max
\* and some quality of the band fitting maxFileSize, optimizeJpegQuality
\* returns the highest fitting quality and the buffer encoded at it.
C11_HighestFittingQuality ==
  (normCall.done /\ EncodesWholeBand /\ FittingQualities # {}) =>
    /\ normCall.outcome = "returned"
    /\ normCall.quality \in FittingQualities
    /\ \A q \in FittingQualities : q <= normCall.quality
    /\ normCall.processedSize = normCall.encoder.size[normCall.quality]

\* A search that ends strictly inside the band: a lower quality fits as
\* well, a higher one does not.
C11_Witness ==
  /\ normCall.done
  /\ EncodesWholeBand
  /\ normCall.quality \in FittingQualities
  /\ normCall.options.jpegQuality.min < normCall.quality
  /\ normCall.quality < normCall.options.jpegQuality.max
  /\ normCall.encoder.size[normCall.options.jpegQuality.min]
       < normCall.encoder.size[normCall.quality]


(***************************************************************************)
(* Resize-and-crop geometry: ImageProcessor.resizeAndCrop and              *)
(* AdvancedImageProcessor.applySmartResize.  A call computes the size the  *)
(* image is resized to and the rectangle then extracted from it.           *)
(***************************************************************************)
MaxDim == 5        \* small widths and heights are 1..MaxDim

Dims == 1..MaxDim \cup {maxWidth}

Max(a, b) == IF a >= b THEN a ELSE b

\* Mutant: the aspect comparison the other way round (fit inside, not cover).
widerThanTargetSwapped(originalWidth, originalHeight, targetWidth, targetHeight) ==
  originalWidth * targetHeight < targetWidth * originalHeight

\* originalAspect > targetAspect, with originalAspect = originalWidth / originalHeight
\* and targetAspect = targetWidth / targetHeight
widerThanTarget(originalWidth, originalHeight, targetWidth, targetHeight) ==
  originalWidth * targetHeight > targetWidth * originalHeight

\* ImageProcessor.resizeAndCrop: resize on the shorter side, centre crop with
\* Math.floor offsets; the extracted size is capped by the resized size.
resizeAndCropGeometry(originalWidth, originalHeight, targetWidth, targetHeight) ==
  LET wider == widerThanTarget(originalWidth, originalHeight, targetWidth, targetHeight)
      resizeWidth == IF wider THEN Round(targetHeight * originalWidth, originalHeight)
                     ELSE targetWidth
      resizeHeight == IF wider THEN targetHeight
                      ELSE Round(targetWidth * originalHeight, originalWidth)
  IN  [resizeWidth  |-> resizeWidth,
       resizeHeight |-> resizeHeight,
       left         |-> Max(0, (resizeWidth - targetWidth) \div 2),
       top          |-> Max(0, (resizeHeight - targetHeight) \div 2),
       cropWidth    |-> Min(targetWidth, resizeWidth),
       cropHeight   |-> Min(targetHeight, resizeHeight)]

\* AdvancedImageProcessor.applySmartResize.  With preserveAspectRatio the scale
\* is Math.max(targetWidth / width, targetHeight / height), the new size is
\* rounded and the crop is centred with Math.round offsets; otherwise the
\* image is stretched to the target and nothing is extracted.
applySmartResize(width, height, targetWidth, targetHeight, preserveAspectRatio) ==
  IF preserveAspectRatio
  THEN LET byWidth == targetWidth * height >= targetHeight * width
           newWidth == IF byWidth THEN Round(width * targetWidth, width)
                       ELSE Round(width * targetHeight, height)
           newHeight == IF byWidth THEN Round(height * targetWidth, width)
                        ELSE Round(height * targetHeight, height)
       IN  [resizeWidth  |-> newWidth,
            resizeHeight |-> newHeight,
            left         |-> Max(0, (newWidth - targetWidth + 1) \div 2),
            top          |-> Max(0, (newHeight - targetHeight + 1) \div 2),
            cropWidth    |-> targetWidth,
            cropHeight   |-> targetHeight]
  ELSE [resizeWidth  |-> targetWidth,
        resizeHeight |-> targetHeight,
        left         |-> 0,
        top          |-> 0,
        cropWidth    |-> targetWidth,
        cropHeight   |-> targetHeight]

GeomCallOf(routine, width, height, targetWidth, targetHeight, geometry) ==
  [routine |-> routine, width |-> width, height |-> height,
   targetWidth |-> targetWidth, targetHeight |-> targetHeight,
   resizeWidth |-> geometry.resizeWidth, resizeHeight |-> geometry.resizeHeight,
   left |-> geometry.left, top |-> geometry.top,
   cropWidth |-> geometry.cropWidth, cropHeight |-> geometry.cropHeight]

notGeomVars == <<storeVars, distVars, pipeVars, filterCall, normCall, encCall, kw, orch, dl, ctor, life, proc, adv, st>>

GeomInit ==
  /\ IdleStore
  /\ IdleDist
  /\ IdlePipe
  /\ IdleFilter
  /\ IdleNorm
  /\ IdleEncCall
  /\ IdleKw
  /\ IdleOrch
  /\ IdleDl
  /\ IdleCtor
  /\ IdleLife
  /\ IdleProc
  /\ IdleAdv
  /\ IdleSt
  /\ \E width \in Dims, height \in Dims, targetWidth \in Dims, targetHeight \in Dims :
       geomCall = [routine |-> "none", width |-> width, height |-> height,
                   targetWidth |-> targetWidth, targetHeight |-> targetHeight,
                   resizeWidth |-> 0, resizeHeight |-> 0,
                   left |-> 0, top |-> 0, cropWidth |-> 0, cropHeight |-> 0]

\* ImageProcessor.processImage reaches resizeAndCrop with the metadata size.
ResizeAndCrop ==
  /\ geomCall.routine = "none"
  /\ geomCall' = GeomCallOf("resizeAndCrop", geomCall.width, geomCall.height,
                            geomCall.targetWidth, geomCall.targetHeight,
                            resizeAndCropGeometry(geomCall.width, geomCall.height,
                                                  geomCall.targetWidth,
                                                  geomCall.targetHeight))
  /\ UNCHANGED notGeomVars

\* AdvancedImageProcessor.processImage reaches applySmartResize.
ApplySmartResize ==
  /\ geomCall.routine = "none"
  /\ \E preserveAspectRatio \in BOOLEAN :
       geomCall' = GeomCallOf(IF preserveAspectRatio THEN "applySmartResize"
                                                     ELSE "applySmartResize fill",
                              geomCall.width, geomCall.height,
                              geomCall.targetWidth, geomCall.targetHeight,
                              applySmartResize(geomCall.width, geomCall.height,
                                               geomCall.targetWidth,
                                               geomCall.targetHeight,
                                               preserveAspectRatio))
  /\ UNCHANGED notGeomVars

GeomNext == ResizeAndCrop \/ ApplySmartResize

SpecGeom == GeomInit /\ [][GeomNext]_vars

\* C12: after either routine the resized image covers the target box, and the
\* crop rectangle lies inside the resized image and measures exactly
\* targetWidth x targetHeight.
C12_CoverAndCropInside ==
  geomCall.routine # "none" =>
    /\ geomCall.resizeWidth >= geomCall.targetWidth
    /\ geomCall.resizeHeight >= geomCall.targetHeight
    /\ geomCall.left >= 0
    /\ geomCall.top >= 0
    /\ geomCall.left + geomCall.cropWidth <= geomCall.resizeWidth
    /\ geomCall.top + geomCall.cropHeight <= geomCall.resizeHeight
    /\ geomCall.cropWidth = geomCall.targetWidth
    /\ geomCall.cropHeight = geomCall.targetHeight

\* A call where the resized width exceeds the target by an odd amount, so the
\* rounded offset is the larger half and the crop ends at the right edge.
C12_Witness ==
  /\ geomCall.routine = "applySmartResize"
  /\ (geomCall.resizeWidth - geomCall.targetWidth) % 2 = 1
  /\ geomCall.left > 0
  /\ geomCall.left + geomCall.cropWidth = geomCall.resizeWidth
  /\ geomCall.width # geomCall.height


(***************************************************************************)
(* ImageProcessor.processImage inside a run of AnimeImageCollectorApp: the *)
(* constructor hands imageProcessing.quality.max to the processor, which   *)
(* lowers the quality in steps until the encoding fits maxFileSize.        *)
(***************************************************************************)
MaxBandSteps == 5   \* band limits are minQuality - 10 + 10 * (0..MaxBandSteps)

BandQualities ==
  {minQuality - qualityStep + qualityStep * k : k \in 0..MaxBandSteps}

\* KeywordUtils.validateConfig accepts the band iff quality.min < quality.max.
QualityBands ==
  {b \in [min : BandQualities, max : BandQualities] : b.min < b.max}

\* Encoded size per quality: non-decreasing in quality, around maxFileSize.
EncodeQualities == 1..(minQuality - qualityStep + qualityStep * MaxBandSteps)

EncodedSizes ==
  {[q \in EncodeQualities |-> IF q >= t THEN maxFileSize + 1 ELSE maxFileSize] :
     t \in BandQualities \cup {minQuality - qualityStep + qualityStep * (MaxBandSteps + 1)}}

NotEncoded == [success |-> FALSE, encodedQuality |-> 0]

\* The while loop of ImageProcessor.processImage with the quality it ends at:
\* while (!processed && attempts < maxAttempts && currentQuality >= minQuality)
RECURSIVE qualityAttempts(_, _, _)
qualityAttempts(jpegSize, currentQuality, attempts) ==
  IF ~(attempts < maxAttempts /\ currentQuality >= minQuality) THEN NotEncoded
  ELSE IF jpegSize[currentQuality] <= maxFileSize
       THEN [success |-> TRUE, encodedQuality |-> currentQuality]
       ELSE qualityAttempts(jpegSize, currentQuality - qualityStep, attempts + 1)

\* new ImageProcessor({quality: config.imageProcessing.quality.max, ...})
\* followed by processImage: currentQuality starts at this.config.quality.
processImageQuality(jpegSize, band) == qualityAttempts(jpegSize, band.max, 0)

notEncVars == <<storeVars, distVars, pipeVars, filterCall, normCall, geomCall, kw, orch, dl, ctor, life, proc, adv, st>>

EncInit ==
  /\ IdleStore
  /\ IdleDist
  /\ IdlePipe
  /\ IdleFilter
  /\ IdleNorm
  /\ IdleGeomCall
  /\ IdleKw
  /\ IdleOrch
  /\ IdleDl
  /\ IdleCtor
  /\ IdleLife
  /\ IdleProc
  /\ IdleAdv
  /\ IdleSt
  /\ \E band \in QualityBands, jpegSize \in EncodedSizes :
       encCall = [quality |-> band, jpegSize |-> jpegSize,
                  done |-> FALSE, success |-> FALSE, encodedQuality |-> 0]

EncodeImage ==
  /\ ~encCall.done
  /\ LET result == processImageQuality(encCall.jpegSize, encCall.quality)
     IN  encCall' = [encCall EXCEPT !.done = TRUE,
                                    !.success = result.success,
                                    !.encodedQuality = result.encodedQuality]
  /\ UNCHANGED notEncVars

EncNext == EncodeImage

SpecEncode == EncInit /\ [][EncNext]_vars

\* C13: whenever processImage succeeds, the quality it encoded the output
\* with lies within the configured band [quality.min, quality.max].
C13_QualityWithinBand ==
  (encCall.done /\ encCall.success) =>
    /\ encCall.quality.min <= encCall.encodedQuality
    /\ encCall.encodedQuality <= encCall.quality.max


(***************************************************************************)
(* AnimeImageCollectorApp.processKeyword, one step per awaited call: the   *)
(* search-term loop, the download loop of downloadImages and the loop of   *)
(* processDownloadedImages.  Candidates are counted, not named.            *)
(*   pc: "loopHead"      top of the for loop over searchTerms              *)
(*       "search"        scraper.searchImages is awaited                   *)
(*       "download"      scraper.downloadImage is awaited                  *)
(*       "downloadSleep" the sleep after a download is awaited             *)
(*       "process"       processor.processImage is awaited                 *)
(*       "termSleep"     sleep(config.scraping.delay) is awaited           *)
(*       "returned" / "threw"   processKeyword has ended                   *)
(* searchGap / downloadGap tell what separates now from the last search /  *)
(* download attempt: nothing yet ("search" / "attempt"), a sleep of random *)
(* length ("random") or a sleep of the configured delay ("configured").    *)
(***************************************************************************)
MaxTerms == 2         \* most search terms of a keyword (primary and variations)
MaxCandidates == 2    \* most new candidates one search yields
MaxTargetCount == 2   \* a keyword's targetCount is 0..MaxTargetCount

SearchOutcomes ==
  {[threw |-> TRUE, found |-> 0, new |-> 0]} \cup
  {o \in [threw : {FALSE}, found : 0..MaxCandidates, new : 0..MaxCandidates] :
     o.new <= o.found}
DownloadOutcomes == {"success", "failure", "throws"}
ProcessOutcomes == {"success", "failure", "throws"}
InsertOutcomes == {"inserted", "throws"}

\* catch (error) of the search-term loop: failures++, next search term.
searchTermCaught(k) == [k EXCEPT !.pc = "loopHead"]

\* const success = await this.scraper.downloadImage(imageData, filename)
startDownload(k) ==
  [k EXCEPT !.pc = "download",
            !.attempted = @ + 1,
            !.unpacedDownload = @ \/ k.downloadGap \in {"attempt", "random"},
            !.downloadGap = "attempt"]

\* this.database.batchInsertImages(imageRecords) in its try/catch, then back
\* in processKeyword: await this.sleep(this.config.scraping.delay)
afterProcessLoop(k, insertOutcome) ==
  [k EXCEPT !.pc = "termSleep",
            !.records = IF k.imageRecords > 0 /\ insertOutcome = "inserted"
                        THEN @ + k.imageRecords ELSE @]

\* for (let i = 0; i < filenames.length; i++) of processDownloadedImages
processLoop(k, insertOutcome) ==
  IF k.processAttempted < k.downloadedCount
  THEN [k EXCEPT !.pc = "process", !.processAttempted = @ + 1]
  ELSE afterProcessLoop(k, insertOutcome)

\* processKeyword after downloadImages returned: totalCollected +=
\* downloadedCount; if (downloadedCount > 0) processDownloadedImages(...)
afterDownloadLoop(k) ==
  LET counted == [k EXCEPT !.totalCollected = @ + k.downloadedCount]
  IN  IF k.downloadedCount > 0
      THEN processLoop(counted, "inserted")
      ELSE [counted EXCEPT !.pc = "termSleep"]

\* for (const imageData of imageDataArray) of downloadImages
downloadLoop(k) ==
  IF k.attempted < k.candidates THEN startDownload(k) ELSE afterDownloadLoop(k)

\* Mutant: downloadImages without its try/catch; the error of one candidate
\* ends the search term in the catch of processKeyword.
downloadRethrown(k) == searchTermCaught(k)

\* catch (error) of downloadImages: log, next candidate (no sleep).
downloadCaught(k) == downloadLoop([k EXCEPT !.candidateFailed = TRUE])

\* catch (error) of processDownloadedImages: log, next file.
processCaught(k, insertOutcome) ==
  processLoop([k EXCEPT !.candidateFailed = TRUE], insertOutcome)

notKwVars == <<storeVars, distVars, pipeVars, filterCall, normCall, geomCall, encCall, orch, dl, ctor, life, proc, adv, st>>

KwInit ==
  /\ IdleStore
  /\ IdleDist
  /\ IdlePipe
  /\ IdleFilter
  /\ IdleNorm
  /\ IdleGeomCall
  /\ IdleEncCall
  /\ IdleOrch
  /\ IdleDl
  /\ IdleCtor
  /\ IdleLife
  /\ IdleProc
  /\ IdleAdv
  /\ IdleSt
  /\ \E targetCount \in 0..MaxTargetCount, terms \in 1..MaxTerms :
       kw = [pc |-> "loopHead", targetCount |-> targetCount, termsLeft |-> terms,
             totalCollected |-> 0, records |-> 0, candidates |-> 0, attempted |-> 0,
             downloadedCount |-> 0, processAttempted |-> 0, imageRecords |-> 0,
             candidateFailed |-> FALSE,
             searchGap |-> "none", downloadGap |-> "none",
             unpacedSearch |-> FALSE, unpacedDownload |-> FALSE]

\* for (const searchTerm of searchTerms) { if (totalCollected >= targetCount) break;
\* ... await this.scraper.searchImages(searchTerm, keyword.category)
KwLoopHead ==
  /\ kw.pc = "loopHead"
  /\ kw' = IF kw.termsLeft = 0 \/ kw.totalCollected >= kw.targetCount
           THEN [kw EXCEPT !.pc = "returned"]
           ELSE [kw EXCEPT !.pc = "search",
                           !.termsLeft = @ - 1,
                           !.candidates = 0, !.attempted = 0, !.downloadedCount = 0,
                           !.processAttempted = 0, !.imageRecords = 0,
                           !.candidateFailed = FALSE,
                           !.unpacedSearch = @ \/ kw.searchGap = "search",
                           !.searchGap = "search"]
  /\ UNCHANGED notKwVars

\* searchImages returns or throws; empty and all-known results "continue".
KwSearch ==
  /\ kw.pc = "search"
  /\ \E outcome \in SearchOutcomes :
       kw' = IF outcome.threw THEN searchTermCaught(kw)
             ELSE IF outcome.found = 0 \/ outcome.new = 0
                  THEN [kw EXCEPT !.pc = "loopHead"]
                  ELSE downloadLoop([kw EXCEPT !.candidates = outcome.new])
  /\ UNCHANGED notKwVars

\* scraper.downloadImage returns true or false, or throws.
KwDownload ==
  /\ kw.pc = "download"
  /\ \E outcome \in DownloadOutcomes :
       kw' = CASE outcome = "success" ->
                    [kw EXCEPT !.pc = "downloadSleep", !.downloadedCount = @ + 1]
               [] outcome = "failure" ->
                    [kw EXCEPT !.pc = "downloadSleep", !.candidateFailed = TRUE]
               [] outcome = "throws" -> downloadCaught(kw)
  /\ UNCHANGED notKwVars

\* await this.sleep(Math.random() * 500 + 200)
KwDownloadSleep ==
  /\ kw.pc = "downloadSleep"
  /\ kw' = downloadLoop([kw EXCEPT !.downloadGap = "random"])
  /\ UNCHANGED notKwVars

\* processor.processImage returns a result or throws; after the last file the
\* records are inserted.
KwProcess ==
  /\ kw.pc = "process"
  /\ \E outcome \in ProcessOutcomes, insertOutcome \in InsertOutcomes :
       kw' = CASE outcome = "success" ->
                    processLoop([kw EXCEPT !.imageRecords = @ + 1], insertOutcome)
               [] outcome = "failure" ->
                    processLoop([kw EXCEPT !.candidateFailed = TRUE], insertOutcome)
               [] outcome = "throws" -> processCaught(kw, insertOutcome)
  /\ UNCHANGED notKwVars

\* await this.sleep(this.config.scraping.delay), end of the iteration
KwTermSleep ==
  /\ kw.pc = "termSleep"
  /\ kw' = [kw EXCEPT !.pc = "loopHead",
                      !.searchGap = "configured",
                      !.downloadGap = IF @ = "none" THEN "none" ELSE "configured"]
  /\ UNCHANGED notKwVars

KwNext ==
  KwLoopHead \/ KwSearch \/ KwDownload \/ KwDownloadSleep \/ KwProcess \/ KwTermSleep

SpecKeyword == KwInit /\ [][KwNext]_vars

\* C14: acquisition for a keyword stops as soon as targetCount records have
\* been produced, so no keyword yields more than targetCount records.
C14_AtMostTargetCount == kw.records <= kw.targetCount


\* C15: a candidate whose download or normalization fails or throws does not
\* keep the remaining candidates of the search from being attempted, and
\* processKeyword does not end with an exception.
C15_FailureIsolated ==
  /\ kw.pc # "threw"
  /\ kw.pc \in {"process", "termSleep", "loopHead", "returned"} =>
       kw.attempted = kw.candidates
  /\ kw.pc \in {"termSleep", "loopHead", "returned"} =>
       kw.processAttempted = kw.downloadedCount

\* A search whose candidates were all attempted although one of them failed
\* and another one was downloaded.
C15_Witness ==
  /\ kw.pc = "loopHead"
  /\ kw.candidateFailed
  /\ kw.candidates >= 2
  /\ kw.attempted = kw.candidates
  /\ kw.downloadedCount >= 1
  /\ kw.processAttempted = kw.downloadedCount

\* C20: every download attempt after the first follows a sleep of the
\* configured delay, and so does every search after the first, on every path.
C20_Paced == ~kw.unpacedSearch /\ ~kw.unpacedDownload


(***************************************************************************)
(* The orchestrator: AnimeImageCollectorApp.run with the signal handlers   *)
(* of index.ts (entry "app") and AnimeCollectionSystem.runCollection of    *)
(* advanced-main.ts (entry "advanced").  A keyword is named by its         *)
(* position in the configuration; orch.keywords lists, in that order, each *)
(* keyword's category name, target_count and number of completed images in *)
(* the store.  orch.collected is the count the run compares with its       *)
(* ceiling: stats.totalImagesProcessed of the application, the number of   *)
(* completed images of the store in advanced-main.                         *)
(***************************************************************************)
MaxRunKeywords == 3   \* most keywords of a configuration
MaxYield == 2         \* most records one keyword adds
MaxCeiling == 2       \* the global target ceiling is 1..MaxCeiling
MaxKeywordTarget == 2 \* target_count of a keyword is 1..MaxKeywordTarget

RunCategoryNames == {"a", "b"}

\* Configured keyword lists: keywords of a category are adjacent.
RunKeywordLists ==
  {ks \in UNION {[1..n -> [category : RunCategoryNames,
                           categoryIndex : 1..MaxRunKeywords,
                           targetCount : 1..MaxKeywordTarget,
                           completed : 0..MaxKeywordTarget]] : n \in 1..MaxRunKeywords} :
     /\ ks[1].categoryIndex = 1
     /\ \A i \in 1..(Len(ks) - 1) :
          ks[i + 1].categoryIndex \in {ks[i].categoryIndex, ks[i].categoryIndex + 1}
     /\ \A i, j \in DOMAIN ks :
          ks[i].categoryIndex = ks[j].categoryIndex => ks[i].category = ks[j].category}

\* keywordDistribution.filter(kd => kd.category === categoryName), as positions
CategoryKeywords(ks, categoryName) ==
  SelectSeq([i \in DOMAIN ks |-> i], LAMBDA i : ks[i].category = categoryName)

\* for (const category of this.config.keywordCategories) processCategory(...):
\* the keywords the application visits, category after category.
RECURSIVE AppVisitsFrom(_, _)
AppVisitsFrom(ks, c) ==
  IF \A i \in DOMAIN ks : ks[i].categoryIndex # c THEN <<>>
  ELSE LET first == CHOOSE i \in DOMAIN ks :
                      /\ ks[i].categoryIndex = c
                      /\ \A j \in DOMAIN ks : ks[j].categoryIndex = c => i <= j
       IN  CategoryKeywords(ks, ks[first].category) \o AppVisitsFrom(ks, c + 1)

AppVisits(ks) == AppVisitsFrom(ks, 1)

\* HAVING collected_count < k.target_count
Incomplete(ks) == {i \in DOMAIN ks : ks[i].completed < ks[i].targetCount}

\* ORDER BY (collected_count * 1.0 / k.target_count) ASC: i may come before j
LowerOrEqualRatio(ks, i, j) ==
  ks[i].completed * ks[j].targetCount <= ks[j].completed * ks[i].targetCount

\* The results getIncompleteKeywords can return: the incomplete keywords in
\* ascending order of their ratio; rows of equal ratio in any order.
getIncompleteKeywords(ks) ==
  {q \in [1..Cardinality(Incomplete(ks)) -> Incomplete(ks)] :
     /\ \A a, b \in DOMAIN q : a # b => q[a] # q[b]
     /\ \A a, b \in DOMAIN q : a < b => LowerOrEqualRatio(ks, q[a], q[b])}

CallOutcomes == {"ok", "throws"}

\* Only index.ts installs signal handlers.
HandlesSignals(o) == o.entry = "app"

\* The throw of catch (error) { ...; throw error } in run / runCollection.
RunFailed(o) == [o EXCEPT !.phase = "Failed", !.failedFrom = o.phase, !.inFlight = FALSE]

\* What follows a keyword.  advanced-main: getCollectionStatistics (rethrows its
\* error), break at the ceiling, otherwise the next keyword after
\* delay(3000).  Application: the next keyword, whatever was collected.
AfterKeyword(o, statistics) ==
  IF o.entry = "advanced"
  THEN IF statistics = "throws" THEN RunFailed(o)
       ELSE IF o.collected >= o.ceiling \/ Len(o.visited) = Len(o.queue)
            THEN [o EXCEPT !.phase = "Reporting"]
            ELSE o
  ELSE IF Len(o.visited) = Len(o.queue) THEN [o EXCEPT !.phase = "Reporting"] ELSE o

notOrchVars ==
  <<storeVars, distVars, pipeVars, filterCall, normCall, geomCall, encCall, kw, dl, ctor, life, proc, adv, st>>

OrchInit ==
  /\ IdleStore
  /\ IdleDist
  /\ IdlePipe
  /\ IdleFilter
  /\ IdleNorm
  /\ IdleGeomCall
  /\ IdleEncCall
  /\ IdleKw
  /\ IdleDl
  /\ IdleCtor
  /\ IdleLife
  /\ IdleProc
  /\ IdleAdv
  /\ IdleSt
  /\ \E entry \in {"app", "advanced"}, ks \in RunKeywordLists, ceiling \in 1..MaxCeiling :
       /\ entry = "app" => \A i \in DOMAIN ks : ks[i].completed = 0
       /\ orch = [entry |-> entry, phase |-> "Initializing", failedFrom |-> "none",
                  keywords |-> ks, queue |-> <<>>, visited |-> <<>>,
                  collected |-> 0, ceiling |-> ceiling, inFlight |-> FALSE,
                  stop |-> "none", startedAfterStop |-> FALSE, cutOff |-> FALSE]

\* await this.scraper.initialize() (and, in advanced-main, initializeKeywords)
OrchInitialize ==
  /\ orch.phase = "Initializing"
  /\ \E outcome \in CallOutcomes :
       orch' = IF outcome = "throws" THEN RunFailed(orch)
               ELSE [orch EXCEPT !.phase = "Distributing"]
  /\ UNCHANGED notOrchVars

\* getWeightedKeywordDistribution / getIncompleteKeywords: the keyword queue.
OrchDistribute ==
  /\ orch.phase = "Distributing"
  /\ \/ /\ orch.entry = "app"
        /\ orch' = [orch EXCEPT !.phase = "PerKeywordLoop",
                                !.queue = AppVisits(orch.keywords)]
     \/ /\ orch.entry = "advanced"
        /\ \E outcome \in CallOutcomes :
             IF outcome = "throws" THEN orch' = RunFailed(orch)
             ELSE \E q \in getIncompleteKeywords(orch.keywords) :
                    orch' = [orch EXCEPT
                               !.phase = IF q = <<>> THEN "Done" ELSE "PerKeywordLoop",
                               !.queue = q,
                               !.collected =
                                 SumSeq([i \in DOMAIN orch.keywords |->
                                           orch.keywords[i].completed])]
  /\ UNCHANGED notOrchVars

\* processKeyword is entered for the next keyword of the queue and reaches a
\* download.
OrchStartKeyword ==
  /\ orch.phase = "PerKeywordLoop"
  /\ ~orch.inFlight
  /\ Len(orch.visited) < Len(orch.queue)
  /\ orch' = [orch EXCEPT !.visited = Append(@, orch.queue[Len(orch.visited) + 1]),
                          !.inFlight = TRUE,
                          !.startedAfterStop = @ \/ orch.stop # "none"]
  /\ UNCHANGED notOrchVars

\* The keyword ends, with the records it added or with an error that
\* processCategory / processKeyword catch.  The application counts the
\* records in stats.totalImagesProcessed; advanced-main stores them as
\* 'pending', which the count of completed images leaves out.
OrchFinishKeyword ==
  /\ orch.phase = "PerKeywordLoop"
  /\ orch.inFlight
  /\ \E yield \in 0..MaxYield, statistics \in CallOutcomes :
       orch' = AfterKeyword([orch EXCEPT !.inFlight = FALSE,
                                         !.collected = IF orch.entry = "app"
                                                       THEN @ + yield ELSE @],
                            statistics)
  /\ UNCHANGED notOrchVars

\* generateFinalReport.  The application catches the error of writeFile;
\* advanced-main lets the errors of getCollectionStatistics and of writeFile
\* through to runCollection, which rethrows.
OrchReport ==
  /\ orch.phase = "Reporting"
  /\ \E outcome \in CallOutcomes :
       orch' = IF outcome = "throws" /\ orch.entry = "advanced" THEN RunFailed(orch)
               ELSE [orch EXCEPT !.phase = "Done"]
  /\ UNCHANGED notOrchVars

\* process.on('SIGINT' / 'SIGTERM'): the handler calls app.shutdown(), which
\* awaits scraper.close().
OrchSignal ==
  /\ HandlesSignals(orch)
  /\ orch.phase \in {"Initializing", "Distributing", "PerKeywordLoop", "Reporting"}
  /\ orch.stop = "none"
  /\ orch' = [orch EXCEPT !.stop = "shutdown"]
  /\ UNCHANGED notOrchVars

\* The handler goes on: database.close(), process.exit(0).
OrchExit ==
  /\ orch.stop = "shutdown"
  /\ orch.phase \in {"Initializing", "Distributing", "PerKeywordLoop", "Reporting"}
  /\ orch' = [orch EXCEPT !.stop = "exited", !.phase = "Exited",
                          !.cutOff = orch.inFlight, !.inFlight = FALSE]
  /\ UNCHANGED notOrchVars

OrchNext ==
  \/ OrchInitialize \/ OrchDistribute \/ OrchStartKeyword \/ OrchFinishKeyword
  \/ OrchReport \/ OrchSignal \/ OrchExit

SpecRun == OrchInit /\ [][OrchNext]_vars

\* C16: after each keyword the collected count is compared with the global
\* target ceiling; once the ceiling is reached no further keyword is started.
C16_StopsAtCeiling ==
  [][(Len(orch'.visited) > Len(orch.visited) /\ orch.visited # <<>>) =>
       orch.collected < orch.ceiling]_vars

\* C17: the run can fail only from Initializing; once the per-keyword loop
\* has started no error makes it fail.
C17_FailsOnlyFromInitializing ==
  orch.phase = "Failed" => orch.failedFrom = "Initializing"

\* C18: keywords are visited in category order and, within a category, in
\* keyword order as configured: in ascending configured position.
C18_ConfiguredOrder ==
  \A a, b \in DOMAIN orch.visited : a < b => orch.visited[a] < orch.visited[b]

\* C19: after a stop request the run starts no new keyword, and a download in
\* flight is not cut off by the resources being closed or the process ending.
C19_CooperativeStop == ~orch.startedAfterStop /\ ~orch.cutOff


\* ------------------------------------------------------------------------
\* The download loops: AdvancedImageScraper.batchDownload and
\* AnimeImageCollectorApp.downloadImages, one step per await.
\* ------------------------------------------------------------------------

MaxDlImages == 3

\* What the fetch of downloadImage does: resolves with response.ok, resolves
\* with an HTTP error status, or rejects (network error).
FetchOutcomes == {"ok", "httpError", "networkError"}

\* AdvancedImageScraper.downloadImage / ImageScraper.downloadImage: one fetch;
\* !response.ok returns false, the catch returns false.
downloadImage(fetch) == fetch = "ok"

\* The number of fetches made for candidate c.
fetchesOf(d, c) == Len(SelectSeq(d.fetches, LAMBDA f : f.candidate = c))

\* The bookkeeping after downloadImage returned for candidate d.i + 1:
\* success pushes to downloaded, otherwise to failed (downloadImages only
\* leaves the candidate out of downloadedFiles).
afterDownloadImage(d, fetch) ==
  LET c == d.i + 1
      success == downloadImage(fetch)
      more == IF d.entry = "advanced" THEN c < d.images ELSE TRUE
  IN [d EXCEPT !.fetches = Append(@, [candidate |-> c, outcome |-> fetch]),
               !.downloaded = IF success THEN Append(@, c) ELSE @,
               !.failed = IF success THEN @ ELSE Append(@, c),
               !.i = c,
               !.pc = IF more THEN "delay" ELSE "returned"]

notDlVars == <<storeVars, distVars, pipeVars, filterCall, normCall, geomCall, encCall, kw, orch, ctor, life, proc, adv, st>>

DlInit ==
  /\ IdleStore
  /\ IdleDist
  /\ IdlePipe
  /\ IdleFilter
  /\ IdleNorm
  /\ IdleGeomCall
  /\ IdleEncCall
  /\ IdleKw
  /\ IdleOrch
  /\ IdleCtor
  /\ IdleLife
  /\ IdleProc
  /\ IdleAdv
  /\ IdleSt
  /\ \E entry \in {"app", "advanced"}, images \in 1..MaxDlImages :
       dl = [entry |-> entry, pc |-> "fetch", images |-> images, i |-> 0,
             fetches |-> <<>>, downloaded |-> <<>>, failed |-> <<>>]

\* const success = await this.downloadImage(image, filename); push
DlDownloadImage ==
  /\ dl.pc = "fetch"
  /\ \E fetch \in FetchOutcomes : dl' = afterDownloadImage(dl, fetch)
  /\ UNCHANGED notDlVars

\* The delay between downloads, then the next candidate or the return.
DlDelay ==
  /\ dl.pc = "delay"
  /\ dl' = [dl EXCEPT !.pc = IF dl.i < dl.images THEN "fetch" ELSE "returned"]
  /\ UNCHANGED notDlVars

DlNext == DlDownloadImage \/ DlDelay

SpecDownload == DlInit /\ [][DlNext]_vars

\* C21: a candidate whose download failed with a network error is fetched
\* again before it is counted as failed: no candidate is in the failed list
\* after a single fetch that ended in a network error.
C21_RetriedBeforeFailed ==
  \A k \in 1..Len(dl.failed) :
    LET c == dl.failed[k]
    IN (\E n \in 1..Len(dl.fetches) :
          dl.fetches[n] = [candidate |-> c, outcome |-> "networkError"])
       => fetchesOf(dl, c) > 1


\* ------------------------------------------------------------------------
\* Configuration validation: KeywordUtils.validateConfig and the constructor
\* of AnimeImageCollectorApp.
\* ------------------------------------------------------------------------

MaxCfgCount == 1
MaxCfgCats == 2

\* Configurations, valid and invalid: the fields validateConfig reads.
\* keywords is the number of keywords of a category.
CfgCategories ==
  [name : {"A", "B"}, keywords : {0, MaxKeywords}, weight : {-1, 0, 1, MaxWeight}]
CfgQualities == [min : {minQuality, processorQuality}, max : {minQuality, processorQuality}]
AppConfigs ==
  [targetImageCount : [min : 0..MaxCfgCount, max : 0..MaxCfgCount],
   keywordCategories : SeqsUpTo(CfgCategories, MaxCfgCats),
   quality : CfgQualities]

\* The error texts; category is "" for the rules that name no category.
TargetCountError == [text |-> "Minimum target count must be less than maximum", category |-> ""]
NoCategoriesError == [text |-> "At least one keyword category is required", category |-> ""]
NoKeywordsError(name) == [text |-> "Category has no keywords", category |-> name]
InvalidWeightError(name) == [text |-> "Category has invalid weight", category |-> name]
QualityError == [text |-> "Minimum quality must be less than maximum quality", category |-> ""]

\* for (const category of config.keywordCategories) { ... }
RECURSIVE categoryErrors(_, _)
categoryErrors(keywordCategories, i) ==
  IF i > Len(keywordCategories) THEN <<>>
  ELSE LET category == keywordCategories[i]
       IN (IF category.keywords = 0 THEN <<NoKeywordsError(category.name)>> ELSE <<>>)
          \o (IF category.weight <= 0 THEN <<InvalidWeightError(category.name)>> ELSE <<>>)
          \o categoryErrors(keywordCategories, i + 1)

\* validateConfig with a strict comparison of the target counts
validateConfigStrict(cfg) ==
  (IF cfg.targetImageCount.min > cfg.targetImageCount.max
   THEN <<TargetCountError>> ELSE <<>>)
  \o (IF Len(cfg.keywordCategories) = 0 THEN <<NoCategoriesError>> ELSE <<>>)
  \o categoryErrors(cfg.keywordCategories, 1)
  \o (IF cfg.quality.min >= cfg.quality.max THEN <<QualityError>> ELSE <<>>)

\* KeywordUtils.validateConfig
validateConfig(cfg) ==
  (IF cfg.targetImageCount.min >= cfg.targetImageCount.max
   THEN <<TargetCountError>> ELSE <<>>)
  \o (IF Len(cfg.keywordCategories) = 0 THEN <<NoCategoriesError>> ELSE <<>>)
  \o categoryErrors(cfg.keywordCategories, 1)
  \o (IF cfg.quality.min >= cfg.quality.max THEN <<QualityError>> ELSE <<>>)

\* The constructor creating its components whatever validateConfig returned
constructorUnvalidated(cfg) ==
  [config |-> cfg, call |-> "constructor", errors |-> validateConfig(cfg),
   threw |-> FALSE,
   created |-> <<"logger", "scraper", "processor", "database", "directories">>]

\* new AnimeImageCollectorApp(config): logger, validation, throw on errors,
\* then scraper, processor, database (which opens the store file) and
\* ensureDirectories.
constructor(cfg) ==
  LET configErrors == validateConfig(cfg)
  IN IF Len(configErrors) > 0
     THEN [config |-> cfg, call |-> "constructor", errors |-> configErrors,
           threw |-> TRUE, created |-> <<"logger">>]
     ELSE [config |-> cfg, call |-> "constructor", errors |-> configErrors,
           threw |-> FALSE,
           created |-> <<"logger", "scraper", "processor", "database", "directories">>]

notCtorVars ==
  <<storeVars, distVars, pipeVars, filterCall, normCall, geomCall, encCall, kw, orch, dl, life, proc, adv, st>>

CtorInit ==
  /\ IdleStore
  /\ IdleDist
  /\ IdlePipe
  /\ IdleFilter
  /\ IdleNorm
  /\ IdleGeomCall
  /\ IdleEncCall
  /\ IdleKw
  /\ IdleOrch
  /\ IdleDl
  /\ IdleLife
  /\ IdleProc
  /\ IdleAdv
  /\ IdleSt
  /\ \E cfg \in AppConfigs :
       ctor = [config |-> cfg, call |-> "none", errors |-> <<>>, threw |-> FALSE,
               created |-> <<>>]

\* const errors = KeywordUtils.validateConfig(config)
ValidateConfig ==
  /\ ctor.call = "none"
  /\ ctor' = [ctor EXCEPT !.call = "validateConfig", !.errors = validateConfig(ctor.config)]
  /\ UNCHANGED notCtorVars

\* app = new AnimeImageCollectorApp(config, progressReporter)
Construct ==
  /\ ctor.call = "none"
  /\ ctor' = constructor(ctor.config)
  /\ UNCHANGED notCtorVars

CtorNext == ValidateConfig \/ Construct

SpecConfig == CtorInit /\ [][CtorNext]_vars

\* The rules as the configuration states them.
TargetCountRule(cfg) == cfg.targetImageCount.min < cfg.targetImageCount.max
CategorySetRule(cfg) == Len(cfg.keywordCategories) >= 1
CategoryRule(category) == category.keywords >= 1 /\ category.weight > 0
CategoriesRule(cfg) ==
  \A i \in 1..Len(cfg.keywordCategories) : CategoryRule(cfg.keywordCategories[i])
QualityRule(cfg) == cfg.quality.min < cfg.quality.max
PassesValidation(cfg) ==
  TargetCountRule(cfg) /\ CategorySetRule(cfg) /\ CategoriesRule(cfg) /\ QualityRule(cfg)

Contains(errors, e) == \E n \in 1..Len(errors) : errors[n] = e

\* The message of the first violated rule, in the order target count, empty
\* category set, per-category checks (keywords before weight), quality.
FirstViolation(cfg) ==
  IF ~TargetCountRule(cfg) THEN TargetCountError
  ELSE IF ~CategorySetRule(cfg) THEN NoCategoriesError
  ELSE IF ~CategoriesRule(cfg)
       THEN LET i == CHOOSE j \in 1..Len(cfg.keywordCategories) :
                       /\ ~CategoryRule(cfg.keywordCategories[j])
                       /\ \A h \in 1..(j - 1) : CategoryRule(cfg.keywordCategories[h])
                category == cfg.keywordCategories[i]
            IN IF category.keywords = 0 THEN NoKeywordsError(category.name)
               ELSE InvalidWeightError(category.name)
  ELSE QualityError

\* C22: constructing the application with a configuration that fails
\* validation throws before the scraper, the processor or the database is
\* created.
C22_InvalidConfigCreatesNothing ==
  (ctor.call = "constructor" /\ ~PassesValidation(ctor.config))
    => /\ ctor.threw
       /\ \A n \in 1..Len(ctor.created) :
            ctor.created[n] \notin {"scraper", "processor", "database", "directories"}

C22_Witness ==
  /\ ctor.call = "constructor"
  /\ ~PassesValidation(ctor.config)
  /\ ctor.threw
  /\ ctor.created = <<"logger">>

\* C23: validateConfig returns the empty list exactly for the configurations
\* that satisfy every rule; a violated rule's message is in the list, and the
\* first message is that of the first violated rule.
C23_ValidateConfigRules ==
  ctor.call = "validateConfig" =>
    LET cfg == ctor.config
        errors == ctor.errors
    IN /\ (errors = <<>>) <=> PassesValidation(cfg)
       /\ ~TargetCountRule(cfg) => Contains(errors, TargetCountError)
       /\ ~CategorySetRule(cfg) => Contains(errors, NoCategoriesError)
       /\ \A i \in 1..Len(cfg.keywordCategories) :
            LET category == cfg.keywordCategories[i]
            IN /\ category.keywords = 0 => Contains(errors, NoKeywordsError(category.name))
               /\ category.weight <= 0 => Contains(errors, InvalidWeightError(category.name))
       /\ ~QualityRule(cfg) => Contains(errors, QualityError)
       /\ ~PassesValidation(cfg) => errors[1] = FirstViolation(cfg)

C23_Witness ==
  /\ ctor.call = "validateConfig"
  /\ TargetCountRule(ctor.config)
  /\ Len(ctor.config.keywordCategories) = 2
  /\ CategoryRule(ctor.config.keywordCategories[1])
  /\ ctor.config.keywordCategories[2].keywords >= 1
  /\ ctor.config.keywordCategories[2].weight = 0
  /\ ~QualityRule(ctor.config)
  /\ Len(ctor.errors) = 2


\* ------------------------------------------------------------------------
\* The way out of a run: AnimeImageCollectorApp.run with main of index.ts,
\* and AnimeCollectionSystem.runCollection with main of advanced-main.ts.
\* try / catch / finally, the final report, cleanup, and what main prints.
\* ------------------------------------------------------------------------

MaxLifeTarget == 2
MaxLifeProcessed == 2

\* catch (error) { ...; throw error } finally { await this.cleanup() }:
\* the error is rethrown after cleanup.
runThrows(l) == [l EXCEPT !.pending = "throw", !.pc = "closeBrowser"]

\* return ...; finally { await this.cleanup() }
runReturns(l) == [l EXCEPT !.pending = "return", !.pc = "closeBrowser"]

\* await this.initializeKeywords() (advanced-main only): insertKeywords
\* rethrows a store error.
initializeKeywords(l, outcome) ==
  IF outcome = "throws" THEN runThrows(l) ELSE [l EXCEPT !.pc = "initialize"]

\* await this.scraper.initialize(): the launch succeeds or the error is
\* rethrown with this.browser still unset.
initializeScraper(l, outcome) ==
  IF outcome = "throws" THEN runThrows(l)
  ELSE [l EXCEPT !.browser = "open", !.pc = "collect"]

\* What the collecting part of a run comes to: it throws into the catch of
\* run, it finds nothing to do (runCollection: no incomplete keyword), or it
\* goes through its keywords.
CollectOutcomes == {"throws", "nothingToDo", "looped"}

\* The category loop of run / steps 3 to 5 of runCollection.
collect(l, outcome, processed) ==
  IF outcome = "throws" THEN runThrows(l)
  ELSE IF outcome = "nothingToDo" /\ l.entry = "advanced" THEN runReturns(l)
  ELSE [l EXCEPT !.processed = processed, !.pc = "report"]

\* generateFinalReport. AnimeImageCollectorApp logs a failed writeFile and
\* returns; AnimeCollectionSystem lets it propagate.
generateFinalReport(l, outcome) ==
  IF outcome = "ok" THEN runReturns([l EXCEPT !.reportWritten = TRUE])
  ELSE IF l.entry = "app" THEN runReturns(l)
  ELSE runThrows(l)

\* cleanup: try { await this.scraper.close(); this.database.close(); }
\* catch (error) { log }.  close() of the scraper does nothing without a
\* browser; when browser.close() rejects the catch is entered and
\* database.close() is not reached.
closeBrowser(l, outcome) ==
  IF l.browser # "open" THEN [l EXCEPT !.pc = "closeDatabase"]
  ELSE IF outcome = "ok" THEN [l EXCEPT !.browser = "closed", !.pc = "closeDatabase"]
  ELSE [l EXCEPT !.browserCloseFailed = TRUE, !.pc = "ended"]

\* this.database.close()
closeDatabase(l) == [l EXCEPT !.database = "closed", !.pc = "ended"]

\* main after run(): index.ts prints the achieved line or the warning by
\* stats.totalImagesProcessed >= config.targetImageCount.min; a thrown error
\* is the failure exit of both mains; advanced-main prints nothing else.
mainVerdict(l) ==
  IF l.pending = "throw" THEN "failed"
  ELSE IF l.entry = "advanced" THEN "completed"
  ELSE IF l.processed >= l.targetMin THEN "achieved"
  ELSE "underTarget"

notLifeVars ==
  <<storeVars, distVars, pipeVars, filterCall, normCall, geomCall, encCall, kw, orch, dl,
    ctor, proc, adv, st>>

LifeInit ==
  /\ IdleStore
  /\ IdleDist
  /\ IdlePipe
  /\ IdleFilter
  /\ IdleNorm
  /\ IdleGeomCall
  /\ IdleEncCall
  /\ IdleKw
  /\ IdleOrch
  /\ IdleDl
  /\ IdleCtor
  /\ IdleProc
  /\ IdleAdv
  /\ IdleSt
  /\ \E entry \in {"app", "advanced"}, targetMin \in 1..MaxLifeTarget :
       life = [entry |-> entry,
               pc |-> IF entry = "app" THEN "initialize" ELSE "initializeKeywords",
               pending |-> "none", browser |-> "none", browserCloseFailed |-> FALSE,
               database |-> "open", reportWritten |-> FALSE,
               targetMin |-> targetMin, processed |-> 0, verdict |-> "none"]

LifeInitializeKeywords ==
  /\ life.pc = "initializeKeywords"
  /\ \E outcome \in CallOutcomes : life' = initializeKeywords(life, outcome)
  /\ UNCHANGED notLifeVars

LifeInitialize ==
  /\ life.pc = "initialize"
  /\ \E outcome \in CallOutcomes : life' = initializeScraper(life, outcome)
  /\ UNCHANGED notLifeVars

LifeCollect ==
  /\ life.pc = "collect"
  /\ \E outcome \in CollectOutcomes, processed \in 0..MaxLifeProcessed :
       life' = collect(life, outcome, processed)
  /\ UNCHANGED notLifeVars

LifeReport ==
  /\ life.pc = "report"
  /\ \E outcome \in CallOutcomes : life' = generateFinalReport(life, outcome)
  /\ UNCHANGED notLifeVars

LifeCloseBrowser ==
  /\ life.pc = "closeBrowser"
  /\ \E outcome \in CallOutcomes : life' = closeBrowser(life, outcome)
  /\ UNCHANGED notLifeVars

LifeCloseDatabase ==
  /\ life.pc = "closeDatabase"
  /\ life' = closeDatabase(life)
  /\ UNCHANGED notLifeVars

\* The caller has control again.
LifeMain ==
  /\ life.pc = "ended"
  /\ life' = [life EXCEPT !.verdict = mainVerdict(life), !.pc = "mainDone"]
  /\ UNCHANGED notLifeVars

LifeNext ==
  \/ LifeInitializeKeywords
  \/ LifeInitialize
  \/ LifeCollect
  \/ LifeReport
  \/ LifeCloseBrowser
  \/ LifeCloseDatabase
  \/ LifeMain

SpecLife == LifeInit /\ [][LifeNext]_vars

\* C24: a run that has ended has written its final report, and a run that
\* ended below the target is reported as under-target, not as a failure.
C24_EndsWithReport ==
  /\ life.pc \in {"ended", "mainDone"} => life.reportWritten
  /\ (life.pc = "mainDone" /\ life.entry = "app" /\ life.pending = "return"
        /\ life.processed < life.targetMin)
       => life.verdict = "underTarget"

\* C26: when run() hands control back, the browser has been closed (or its
\* close was tried and failed) and the database has been closed.
C26_BothClosedOnEveryPath ==
  life.pc \in {"ended", "mainDone"} =>
    /\ life.browser = "open" => life.browserCloseFailed
    /\ life.database = "closed"


\* ------------------------------------------------------------------------
\* ImageProcessor.processImage, one step per await, with the result object
\* it builds.  cause records what actually went wrong in the call.
\* ------------------------------------------------------------------------

\* if (!fs.existsSync(inputPath)) { result.error = ...; return result; }
checkInput(p, exists) ==
  IF exists THEN [p EXCEPT !.pc = "metadata"]
  ELSE [p EXCEPT !.error = "Input file does not exist", !.cause = "missingInput",
                 !.pc = "returned"]

\* const metadata = await image.metadata(); no width or height returns the
\* dimensions error; a rejection is caught by the outer catch.
readMetadata(p, outcome) ==
  IF outcome = "dimensions" THEN [p EXCEPT !.pc = "loop"]
  ELSE IF outcome = "noDimensions"
  THEN [p EXCEPT !.error = "Unable to read image dimensions", !.cause = "noDimensions",
                 !.pc = "returned"]
  ELSE [p EXCEPT !.error = "Error processing image", !.cause = "noDimensions",
                 !.pc = "returned"]

\* while (!processed && attempts < maxAttempts && currentQuality >= minQuality)
loopContinues(p) ==
  ~p.processed /\ p.attempts < maxAttempts /\ p.currentQuality >= minQuality

\* What one pass of the loop body meets: toBuffer rejects, the buffer is too
\* large, it fits and is written, or it is written and reading it back fails.
AttemptOutcomes == {"encodeThrows", "tooLarge", "fits", "fitsUnreadable"}

\* One pass of the loop body; the inner catch sets the error and breaks.
attempt(p, outcome) ==
  IF outcome = "encodeThrows"
  THEN [p EXCEPT !.error = "Processing failed", !.cause = "encodingError",
                 !.pc = "afterLoop"]
  ELSE IF outcome = "tooLarge"
  THEN [p EXCEPT !.currentQuality = @ - qualityStep, !.attempts = @ + 1,
                 !.cause = "tooLarge"]
  ELSE IF outcome = "fits"
  THEN [p EXCEPT !.written = TRUE, !.success = TRUE, !.processed = TRUE,
                 !.cause = "none"]
  ELSE [p EXCEPT !.written = TRUE, !.error = "Processing failed",
                 !.cause = "outputUnreadable", !.pc = "afterLoop"]

\* if (!processed) { if (currentQuality < minQuality) ... else ... }
afterLoop(p) ==
  IF p.processed THEN [p EXCEPT !.pc = "returned"]
  ELSE IF p.currentQuality < minQuality
  THEN [p EXCEPT !.error = "Unable to compress image below maxFileSize",
                 !.pc = "returned"]
  ELSE [p EXCEPT !.error = "Failed to process image after maxAttempts attempts",
                 !.pc = "returned"]

notProcVars ==
  <<storeVars, distVars, pipeVars, filterCall, normCall, geomCall, encCall, kw, orch, dl,
    ctor, life, adv, st>>

ProcInit ==
  /\ IdleStore
  /\ IdleDist
  /\ IdlePipe
  /\ IdleFilter
  /\ IdleNorm
  /\ IdleGeomCall
  /\ IdleEncCall
  /\ IdleKw
  /\ IdleOrch
  /\ IdleDl
  /\ IdleCtor
  /\ IdleLife
  /\ IdleAdv
  /\ IdleSt
  /\ \E quality \in BandQualities :
       proc = [pc |-> "start", currentQuality |-> quality, attempts |-> 0,
               processed |-> FALSE, success |-> FALSE, error |-> "", written |-> FALSE,
               threw |-> FALSE, cause |-> "none"]

ProcCheckInput ==
  /\ proc.pc = "start"
  /\ \E exists \in BOOLEAN : proc' = checkInput(proc, exists)
  /\ UNCHANGED notProcVars

ProcReadMetadata ==
  /\ proc.pc = "metadata"
  /\ \E outcome \in {"dimensions", "noDimensions", "throws"} :
       proc' = readMetadata(proc, outcome)
  /\ UNCHANGED notProcVars

ProcAttempt ==
  /\ proc.pc = "loop"
  /\ loopContinues(proc)
  /\ \E outcome \in AttemptOutcomes : proc' = attempt(proc, outcome)
  /\ UNCHANGED notProcVars

ProcLoopExit ==
  /\ proc.pc = "loop"
  /\ ~loopContinues(proc)
  /\ proc' = [proc EXCEPT !.pc = "afterLoop"]
  /\ UNCHANGED notProcVars

ProcAfterLoop ==
  /\ proc.pc = "afterLoop"
  /\ proc' = afterLoop(proc)
  /\ UNCHANGED notProcVars

ProcNext ==
  \/ ProcCheckInput
  \/ ProcReadMetadata
  \/ ProcAttempt
  \/ ProcLoopExit
  \/ ProcAfterLoop

SpecProcess == ProcInit /\ [][ProcNext]_vars

\* The causes an error text names.  The texts of the two catch blocks carry
\* the text of the caught error.
Names(error, cause) ==
  \/ error = "Input file does not exist" /\ cause = "missingInput"
  \/ error = "Unable to read image dimensions" /\ cause = "noDimensions"
  \/ error = "Error processing image" /\ cause \in {"noDimensions", "encodingError"}
  \/ error = "Processing failed" /\ cause = "encodingError"
  \/ error = "Unable to compress image below maxFileSize" /\ cause = "tooLarge"
  \/ error = "Failed to process image after maxAttempts attempts" /\ cause = "tooLarge"

\* C25: processImage never throws, and a call that met a missing input file,
\* undeterminable dimensions, an encoding error or an image that stays above
\* maxFileSize returns success = false with an error text naming that cause
\* and has written no output file.
C25_FailureNamedNothingWritten ==
  /\ ~proc.threw
  /\ (proc.pc = "returned"
      /\ proc.cause \in {"missingInput", "noDimensions", "encodingError", "tooLarge"})
       => /\ ~proc.success
          /\ Names(proc.error, proc.cause)
          /\ ~proc.written


\* ------------------------------------------------------------------------
\* Frame of the store operations, checked under Spec.
\* ------------------------------------------------------------------------

\* The rows of before that are not the same in after.
RowsChanged(before, after) ==
  {i \in DOMAIN before.images : i \notin DOMAIN after.images \/ after.images[i] # before.images[i]}

\* C27: no operation deletes a persisted record; a step changes nothing of an
\* existing record but processingStatus and processedAt; updateProcessingStatus
\* adds no row and changes the row of one id at most; so the set of persisted
\* source URLs only grows.
C27_OnlyStatusChanges ==
  [][/\ \A i \in DOMAIN db.images :
          /\ i \in DOMAIN db'.images
          /\ db'.images[i] =
               [db.images[i] EXCEPT !.processingStatus = db'.images[i].processingStatus,
                                    !.processedAt = db'.images[i].processedAt]
     /\ lastCall'.op = "updateProcessingStatus" =>
          /\ Len(db'.images) = Len(db.images)
          /\ Cardinality(RowsChanged(db, db')) <= 1
     /\ lastCall'.op # "updateProcessingStatus" => RowsChanged(db, db') = {}
     /\ \A u \in URLS : urlExists(db, u) => urlExists(db', u)]_vars

\* Two records are stored and a status update has completed one of them while
\* the other is still pending.
C27_Witness ==
  /\ lastCall.op = "updateProcessingStatus"
  /\ Len(db.images) = 2
  /\ \E i, j \in DOMAIN db.images :
       /\ db.images[i].processingStatus = "completed"
       /\ db.images[i].processedAt
       /\ db.images[j].processingStatus = "pending"


\* ------------------------------------------------------------------------
\* Runs of the advanced pipeline (AnimeCollectionSystem.runCollection) against
\* one store, seen from one keyword: stored counts its image rows, completed
\* those with processing_status = 'completed'.
\* ------------------------------------------------------------------------

MaxAdvTarget == 2
MaxAdvRuns == 4
MaxAdvNew == 2

\* getKeywordStats(keyword).collected and the HAVING clause of
\* getIncompleteKeywords: COUNT over the rows joined ON ... AND
\* i.processing_status = 'completed'.
collectedCount(a) == a.completed

isIncomplete(a) == collectedCount(a) < a.targetCount

\* const needed = keyword.targetCount - stats.collected
neededImages(a) == a.targetCount - collectedCount(a)

\* processKeyword up to batchDownload: nothing needed, nothing found or
\* nothing new ends it; otherwise newImages.slice(0, needed) goes to download.
searchKeyword(a, newImages) ==
  IF neededImages(a) <= 0 THEN [a EXCEPT !.pc = "batch"]
  ELSE IF newImages = 0
  THEN [a EXCEPT !.pc = "batch", !.searchedWhenFull = @ \/ a.stored >= a.targetCount]
  ELSE [a EXCEPT !.pc = "download",
                 !.imagesToDownload = Min(newImages, neededImages(a)),
                 !.searchedWhenFull = @ \/ a.stored >= a.targetCount]

\* downloadResult.downloaded.map(... processingStatus: 'pending') and
\* insertImagesBatch: the rows are new (urlExists filtered them) and pending.
saveDownloaded(a, downloadedCount) ==
  [a EXCEPT !.stored = @ + downloadedCount, !.imagesToDownload = 0, !.pc = "batch"]

\* processBatchImages: getImagesByCategory returns [] and the call of
\* updateProcessingStatus is commented out; no row changes its status.
processBatchImages(a) == [a EXCEPT !.pc = "between", !.runsLeft = @ - 1]

notAdvVars ==
  <<storeVars, distVars, pipeVars, filterCall, normCall, geomCall, encCall, kw, orch, dl,
    ctor, life, proc, st>>

AdvInit ==
  /\ IdleStore
  /\ IdleDist
  /\ IdlePipe
  /\ IdleFilter
  /\ IdleNorm
  /\ IdleGeomCall
  /\ IdleEncCall
  /\ IdleKw
  /\ IdleOrch
  /\ IdleDl
  /\ IdleCtor
  /\ IdleLife
  /\ IdleProc
  /\ IdleSt
  /\ \E targetCount \in 1..MaxAdvTarget, runs \in 1..MaxAdvRuns :
       adv = [pc |-> "between", targetCount |-> targetCount, stored |-> 0,
              completed |-> 0, runsLeft |-> runs, imagesToDownload |-> 0,
              searchedWhenFull |-> FALSE]

\* const incompleteKeywords = this.database.getIncompleteKeywords(); an empty
\* list ends the run.
AdvStartRun ==
  /\ adv.pc = "between"
  /\ adv.runsLeft > 0
  /\ adv' = IF isIncomplete(adv) THEN [adv EXCEPT !.pc = "keyword"]
            ELSE [adv EXCEPT !.runsLeft = @ - 1]
  /\ UNCHANGED notAdvVars

AdvSearchKeyword ==
  /\ adv.pc = "keyword"
  /\ \E newImages \in 0..MaxAdvNew : adv' = searchKeyword(adv, newImages)
  /\ UNCHANGED notAdvVars

AdvDownload ==
  /\ adv.pc = "download"
  /\ \E downloadedCount \in 0..adv.imagesToDownload :
       adv' = saveDownloaded(adv, downloadedCount)
  /\ UNCHANGED notAdvVars

AdvProcessBatch ==
  /\ adv.pc = "batch"
  /\ adv' = processBatchImages(adv)
  /\ UNCHANGED notAdvVars

AdvNext == AdvStartRun \/ AdvSearchKeyword \/ AdvDownload \/ AdvProcessBatch

SpecAdvanced == AdvInit /\ [][AdvNext]_vars

\* C28: over any sequence of runs against the same store the keyword never
\* has more stored images than its targetCount, and once it has targetCount
\* stored images it is not searched again.
C28_StoredWithinTarget ==
  /\ adv.stored <= adv.targetCount
  /\ ~adv.searchedWhenFull


\* ------------------------------------------------------------------------
\* The statistics of a run of AnimeImageCollectorApp: the counters of
\* this.stats and of the categoryStats of each category, updated by
\* processKeyword between its awaits, and the records the run stored.
\* The search terms of a category's keywords are taken as one list; a run
\* goes through MaxStatTerms search terms at most, in MaxStatCats categories
\* at most.
\* ------------------------------------------------------------------------

MaxStatCats == 2
MaxStatTerms == 3
MaxStatFound == 1

\* const categoryStats = { imagesFound: 0, imagesDownloaded: 0, imagesProcessed: 0, ... }
NewCategoryStats == [imagesFound |-> 0, imagesDownloaded |-> 0, imagesProcessed |-> 0]

\* The categoryStats object of the category being processed.
current(s) == Len(s.categoriesStats)

\* The search counted nowhere
countFoundOmitted(s, found) == s

\* categoryStats.imagesFound += imageDataArray.length;
\* this.stats.totalImagesFound += imageDataArray.length;
countFound(s, found) ==
  [s EXCEPT !.categoriesStats[current(s)].imagesFound = @ + found,
            !.totalImagesFound = @ + found]

\* categoryStats.imagesDownloaded += downloadedCount;
\* this.stats.totalImagesDownloaded += downloadedCount;
countDownloaded(s, downloadedCount) ==
  [s EXCEPT !.categoriesStats[current(s)].imagesDownloaded = @ + downloadedCount,
            !.totalImagesDownloaded = @ + downloadedCount]

\* categoryStats.imagesProcessed += processedCount;
\* this.stats.totalImagesProcessed += processedCount;
countProcessed(s, processedCount) ==
  [s EXCEPT !.categoriesStats[current(s)].imagesProcessed = @ + processedCount,
            !.totalImagesProcessed = @ + processedCount]

\* The end of one pass of the search-term loop.
nextTerm(s) == [s EXCEPT !.pc = "loopHead", !.newCount = 0, !.downloadedCount = 0]

\* searchImages and the urlExists filter: a thrown search is caught by the
\* loop; the images found are counted before the two continue statements.
afterSearch(s, threw, found, new) ==
  IF threw THEN nextTerm(s)
  ELSE LET counted == countFound(s, found)
       IN IF found = 0 \/ new = 0 THEN nextTerm(counted)
          ELSE [counted EXCEPT !.pc = "download", !.newCount = new]

\* downloadImages returned downloadedFiles.
afterDownload(s, downloadedCount) ==
  LET counted == countDownloaded(s, downloadedCount)
  IN IF downloadedCount > 0
     THEN [counted EXCEPT !.pc = "process", !.downloadedCount = downloadedCount]
     ELSE nextTerm(counted)

\* processDownloadedImages: processedCount records were built; batchInsertImages
\* stored them or threw into the catch that only logs; processedCount is
\* returned either way.
afterProcess(s, processedCount, insertOutcome) ==
  LET stored == processedCount > 0 /\ insertOutcome = "inserted"
      failed == processedCount > 0 /\ insertOutcome = "throws"
  IN nextTerm(countProcessed([s EXCEPT !.persisted = IF stored THEN @ + processedCount ELSE @,
                                       !.insertFailed = @ \/ failed],
                             processedCount))

notStVars ==
  <<storeVars, distVars, pipeVars, filterCall, normCall, geomCall, encCall, kw, orch, dl,
    ctor, life, proc, adv>>

StInit ==
  /\ IdleStore
  /\ IdleDist
  /\ IdlePipe
  /\ IdleFilter
  /\ IdleNorm
  /\ IdleGeomCall
  /\ IdleEncCall
  /\ IdleKw
  /\ IdleOrch
  /\ IdleDl
  /\ IdleCtor
  /\ IdleLife
  /\ IdleProc
  /\ IdleAdv
  /\ st = [pc |-> "search", categoriesLeft |-> MaxStatCats - 1,
           termsLeft |-> MaxStatTerms - 1, newCount |-> 0, downloadedCount |-> 0,
           categoriesStats |-> <<NewCategoryStats>>,
           totalImagesFound |-> 0, totalImagesDownloaded |-> 0,
           totalImagesProcessed |-> 0, persisted |-> 0, insertFailed |-> FALSE]

\* for (const searchTerm of searchTerms): the next search term of the category
StNextTerm ==
  /\ st.pc = "loopHead"
  /\ st.termsLeft > 0
  /\ st' = [st EXCEPT !.pc = "search", !.termsLeft = @ - 1]
  /\ UNCHANGED notStVars

\* for (const category of this.config.keywordCategories): processCategory
\* starts the next category with fresh categoryStats.
StNextCategory ==
  /\ st.pc = "loopHead"
  /\ st.termsLeft > 0
  /\ st.categoriesLeft > 0
  /\ st' = [st EXCEPT !.pc = "search", !.termsLeft = @ - 1, !.categoriesLeft = @ - 1,
                      !.categoriesStats = Append(@, NewCategoryStats)]
  /\ UNCHANGED notStVars

\* The last category is through.
StEnd ==
  /\ st.pc = "loopHead"
  /\ st' = [st EXCEPT !.pc = "done"]
  /\ UNCHANGED notStVars

StSearch ==
  /\ st.pc = "search"
  /\ \E threw \in BOOLEAN, found \in 0..MaxStatFound :
       \E new \in 0..found : st' = afterSearch(st, threw, found, new)
  /\ UNCHANGED notStVars

StDownload ==
  /\ st.pc = "download"
  /\ \E downloadedCount \in 0..st.newCount : st' = afterDownload(st, downloadedCount)
  /\ UNCHANGED notStVars

StProcess ==
  /\ st.pc = "process"
  /\ \E processedCount \in 0..st.downloadedCount, insertOutcome \in InsertOutcomes :
       st' = afterProcess(st, processedCount, insertOutcome)
  /\ UNCHANGED notStVars

StNext == StNextTerm \/ StNextCategory \/ StEnd \/ StSearch \/ StDownload \/ StProcess

SpecStats == StInit /\ [][StNext]_vars

\* C29: in every state of a run totalImagesProcessed <= totalImagesDownloaded
\* <= totalImagesFound, and the counters of every category are ordered the same.
C29_CountersOrdered ==
  /\ st.totalImagesProcessed <= st.totalImagesDownloaded
  /\ st.totalImagesDownloaded <= st.totalImagesFound
  /\ \A c \in DOMAIN st.categoriesStats :
       /\ st.categoriesStats[c].imagesProcessed <= st.categoriesStats[c].imagesDownloaded
       /\ st.categoriesStats[c].imagesDownloaded <= st.categoriesStats[c].imagesFound

\* A run of two categories is over: in the second one more images were found
\* than downloaded and more downloaded than processed, and the first one
\* has a processed image.
C29_Witness ==
  /\ st.pc = "done"
  /\ Len(st.categoriesStats) = 2
  /\ st.categoriesStats[2].imagesProcessed = 0
  /\ st.categoriesStats[2].imagesDownloaded = 1
  /\ st.categoriesStats[2].imagesFound = 2
  /\ st.totalImagesProcessed = 1

\* C30: at the end of a run totalImagesProcessed is the number of records the
\* run stored, also when a batch insert failed.
C30_ProcessedEqualsPersisted ==
  st.pc = "done" => st.totalImagesProcessed = st.persisted

=============================================================================
